---------------------------- MODULE Spec2Model ----------------------------
(***************************************************************************)
(* Hotel data collector: retry wrapper, URL discovery, page collector,     *)
(* record validator and orchestrator (src/main.py, src/hotel_scraper.py,   *)
(* src/app/create_list_of_hotels.py).                                      *)
(*                                                                         *)
(* Text is modelled as a sequence of one-character strings, so that the    *)
(* string operations of the code (lower, split, replace, strip, substring  *)
(* tests) are computed rather than assumed.  Python's None is the model    *)
(* value None below.                                                       *)
(***************************************************************************)
EXTENDS Integers, Sequences, FiniteSets, TLC

VARIABLES
    rw,            \* handle_rate_limit.wrapper: one invocation of a wrapped call
    hist,          \* what the wrapped call did at each attempt of that invocation
    sleeps,        \* the time.sleep(wait_time) calls of that invocation, in order
    vin, vout,     \* validate_and_fix: its arguments and its returned record
    din, dout,     \* collect_urls: what the services answer, and its outcome
    gin, gout,     \* generate_hotel_list: the key, the answer, and its outcome
    cpc,           \* crawl_website: where it is
    cw,            \* the wrapper around crawl_website
    sj,            \* the wrapper around start_crawl_job
    wj,            \* the locals of wait_for_crawl_job
    start_codes,   \* the status codes POST /crawl answered, in order
    pc,            \* collect_data: where it is
    scraped_data,  \* HotelDataCollector.scraped_data
    hotel_urls,    \* collect_data's hotel_urls, once capped
    idx,           \* the URL of hotel_urls being processed (from 1)
    sw,            \* the wrapper around scrape_website during one scrape
    results,       \* HotelDataCollector.results
    ret,           \* what collect_data returned
    called,        \* the external services called so far
    outcomes,      \* how the scrape call ended for each URL processed
    pauses,        \* the inter-request sleeps so far, in order
    runs           \* the calls of collect_data on this collector so far

retryVars == <<rw, hist, sleeps>>
validateVars == <<vin, vout>>
discoverVars == <<din, dout>>
generateVars == <<gin, gout>>
crawlVars == <<cpc, cw, sj, wj, start_codes>>
collectVars ==
    <<pc, scraped_data, hotel_urls, idx, sw, results, ret, called, outcomes, pauses,
      runs>>
vars == <<retryVars, validateVars, discoverVars, generateVars, crawlVars, collectVars>>

(***************************************************************************)
(* Text helpers                                                            *)
(***************************************************************************)
\* Python's None, as a one-element text no string operation produces
None == <<"<None>">>

LowerAlphabet ==
    <<"a","b","c","d","e","f","g","h","i","j","k","l","m","n","o","p","q","r","s","t","u","v","w","x","y","z">>

UpperAlphabet ==
    <<"A","B","C","D","E","F","G","H","I","J","K","L","M","N","O","P","Q","R","S","T","U","V","W","X","Y","Z">>

\* str.lower() on one character
LowerChar(c) ==
    IF \E i \in 1..26 : UpperAlphabet[i] = c
    THEN LowerAlphabet[CHOOSE i \in 1..26 : UpperAlphabet[i] = c]
    ELSE c

\* str.upper() on one character
UpperChar(c) ==
    IF \E i \in 1..26 : LowerAlphabet[i] = c
    THEN UpperAlphabet[CHOOSE i \in 1..26 : LowerAlphabet[i] = c]
    ELSE c

\* str.lower()
Lower(s) == [i \in 1..Len(s) |-> LowerChar(s[i])]

\* sub in s
Contains(s, sub) ==
    \E i \in 1..(Len(s) - Len(sub) + 1) : SubSeq(s, i, i + Len(sub) - 1) = sub

\* s.startswith(p)
StartsWith(s, p) == Len(s) >= Len(p) /\ SubSeq(s, 1, Len(p)) = p

\* str.isspace() on one character
IsSpace(c) == c \in {" ", "\t", "\n"}

\* str.lstrip(), str.rstrip(), str.strip()
RECURSIVE LStrip(_)
LStrip(s) == IF s # <<>> /\ IsSpace(Head(s)) THEN LStrip(Tail(s)) ELSE s

RECURSIVE RStrip(_)
RStrip(s) ==
    IF s # <<>> /\ IsSpace(s[Len(s)]) THEN RStrip(SubSeq(s, 1, Len(s) - 1)) ELSE s

Strip(s) == RStrip(LStrip(s))

\* str.split(): the maximal runs of non-whitespace characters
RECURSIVE SplitWs(_)
SplitWs(s) ==
    LET t == LStrip(s)
        n == IF \E i \in 1..Len(t) : IsSpace(t[i])
             THEN (CHOOSE i \in 1..Len(t) :
                       IsSpace(t[i]) /\ \A j \in 1..(i - 1) : ~IsSpace(t[j])) - 1
             ELSE Len(t)
    IN  IF t = <<>> THEN <<>>
        ELSE <<SubSeq(t, 1, n)>> \o SplitWs(SubSeq(t, n + 1, Len(t)))

\* sep.join(words)
RECURSIVE Join(_, _)
Join(words, sep) ==
    IF words = <<>> THEN <<>>
    ELSE IF Len(words) = 1 THEN words[1]
    ELSE words[1] \o sep \o Join(Tail(words), sep)

\* s.split(ch): the pieces between the occurrences of ch, empty ones kept
RECURSIVE SplitOn(_, _)
SplitOn(s, ch) ==
    IF \E i \in 1..Len(s) : s[i] = ch
    THEN LET n == CHOOSE i \in 1..Len(s) : s[i] = ch /\ \A j \in 1..(i - 1) : s[j] # ch
         IN  <<SubSeq(s, 1, n - 1)>> \o SplitOn(SubSeq(s, n + 1, Len(s)), ch)
    ELSE <<s>>

\* s.replace(ch, by), ch one character
RECURSIVE Replace(_, _, _)
Replace(s, ch, by) ==
    IF s = <<>> THEN <<>>
    ELSE (IF Head(s) = ch THEN by ELSE <<Head(s)>>) \o Replace(Tail(s), ch, by)

\* str.capitalize(): first character upper, the rest lower
Capitalize(w) ==
    IF w = <<>> THEN <<>> ELSE <<UpperChar(w[1])>> \o Lower(Tail(w))

\* [f(w) for w in words] with f = capitalize
CapitalizeAll(words) == [i \in 1..Len(words) |-> Capitalize(words[i])]

\* the truth value Python gives a str or None: None and "" are false
Truthy(x) == x # None /\ x # <<>>

\* a ** b for naturals
RECURSIVE Pow(_, _)
Pow(a, b) == IF b = 0 THEN 1 ELSE a * Pow(a, b - 1)

RECURSIVE SumSeq(_)
SumSeq(s) == IF s = <<>> THEN 0 ELSE Head(s) + SumSeq(Tail(s))

(***************************************************************************)
(* handle_rate_limit (src/main.py:65-90)                                   *)
(***************************************************************************)
max_retries == 5
retry_delay == 5

\* Sleep times are counted in 1/JitterSteps of a second, so that
\* random.uniform(0, 1) is one of 0, 1/JitterSteps, ..., 1.
JitterSteps == 2
JitterValues == 0..JitterSteps

RateLimitMarker == \* "rate limit"
    <<"r","a","t","e"," ","l","i","m","i","t">>
StatusMarker == \* "429"
    <<"4","2","9">>

\* raise Exception(f"Failed after {max_retries} attempts due to rate limiting")
ExhaustedMsg == \* "Failed after 5 attempts due to rate limiting"
    <<"F","a","i","l","e","d"," ","a","f","t","e","r"," ","5"," ","a","t","t","e","m","p","t","s"," ","d","u","e"," ","t","o"," ","r","a","t","e"," ","l","i","m","i","t","i","n","g">>

\* str(e) of the errors a wrapped call raises
ErrMessages ==
    { <<"A","P","I"," ","e","r","r","o","r",":"," ","4","2","9">>,       \* "API error: 429"
      <<"R","a","t","e"," ","L","i","m","i","t"," ","h","i","t">>,       \* "Rate Limit hit"
      <<"A","P","I"," ","e","r","r","o","r",":"," ","5","0","0">>,       \* "API error: 500"
      <<"c","o","n","n","e","c","t","i","o","n"," ","r","e","s","e","t">> } \* "connection reset"

\* "rate limit" in error_str or "429" in error_str, error_str = str(e).lower()
IsRateLimit(msg) ==
    Contains(Lower(msg), RateLimitMarker) \/ Contains(Lower(msg), StatusMarker)

\* wait_time = retry_delay * (2**attempt) + random.uniform(0, 1)
WaitTimeFlat(attempt, jitter) == retry_delay * JitterSteps + jitter
WaitTime(attempt, jitter) ==
    retry_delay * Pow(2, attempt) * JitterSteps + jitter

\* what one call of the wrapped function does: returns a value, or raises an
\* error whose text is msg
Returned(v) == [kind |-> "ok", msg |-> <<>>, value |-> v]
Raised(m, v) == [kind |-> "error", msg |-> m, value |-> v]
CallOutcomes == {Returned(<<"r">>)} \cup {Raised(m, <<"r">>) : m \in ErrMessages}

\* the wrapper's locals at entry; noresult stands for "nothing returned yet",
\* wait is the sleep of the last iteration (0: it did not sleep)
WrapperEntry(noresult) ==
    [attempt |-> 0, calls |-> 0, wait |-> 0, status |-> "running",
     how |-> "none", err |-> <<>>, result |-> noresult]

\* one iteration of `for attempt in range(max_retries)`; after the last
\* iteration the loop ends and the exhausted-retries failure is raised
WrapperIterationRetryAll(w, out, jitter) ==
    IF out.kind = "ok"
    THEN [w EXCEPT !.calls = @ + 1, !.wait = 0, !.status = "returned",
                   !.result = out.value]
    ELSE LET slept == [w EXCEPT !.calls = @ + 1,
                                !.wait = WaitTime(w.attempt, jitter),
                                !.attempt = @ + 1]
         IN  IF slept.attempt < max_retries
             THEN slept
             ELSE [slept EXCEPT !.status = "raised", !.how = "exhausted",
                                !.err = ExhaustedMsg]
WrapperIterationNoCeiling(w, out, jitter) ==
    IF out.kind = "ok"
    THEN [w EXCEPT !.calls = @ + 1, !.wait = 0, !.status = "returned",
                   !.result = out.value]
    ELSE IF IsRateLimit(out.msg)
    THEN [w EXCEPT !.calls = @ + 1,
                   !.wait = WaitTime(w.attempt, jitter),
                   !.attempt = @ + 1]
    ELSE [w EXCEPT !.calls = @ + 1, !.wait = 0, !.status = "raised",
                   !.how = "reraise", !.err = out.msg]
WrapperIteration(w, out, jitter) ==
    IF out.kind = "ok"
    THEN [w EXCEPT !.calls = @ + 1, !.wait = 0, !.status = "returned",
                   !.result = out.value]
    ELSE IF IsRateLimit(out.msg)
    THEN LET slept == [w EXCEPT !.calls = @ + 1,
                                !.wait = WaitTime(w.attempt, jitter),
                                !.attempt = @ + 1]
         IN  IF slept.attempt < max_retries
             THEN slept
             ELSE [slept EXCEPT !.status = "raised", !.how = "exhausted",
                                !.err = ExhaustedMsg]
    ELSE [w EXCEPT !.calls = @ + 1, !.wait = 0, !.status = "raised",
                   !.how = "reraise", !.err = out.msg]

(***************************************************************************)
(* validate_and_fix (src/hotel_scraper.py:125-184)                         *)
(***************************************************************************)
\* a key the dict hotel_data does not hold
Missing == <<"<missing>">>

\* hotel_data.get(key): None for a key that is absent
Get(d, key) == IF d[key] = Missing THEN None ELSE d[key]

\* select_one found no element
NoElem == <<"<no element>">>

\* the characters (\$|€|£|₹|¥) of the price pattern; the four symbols beyond
\* "$" are written by their ASCII names, each standing for one character
Currency == {"$", "EUR", "GBP", "INR", "JPY"}
Digits == {"0", "1", "2", "3", "4", "5", "6", "7", "8", "9"}

\* the end of the longest run of [\d,] that starts at position i
RECURSIVE RunEnd(_, _)
RunEnd(t, i) ==
    IF i + 1 <= Len(t) /\ t[i + 1] \in Digits \cup {","} THEN RunEnd(t, i + 1) ELSE i

\* re.search(r"(\$|€|£|₹|¥)[\d,]+(?:\.\d{2})?", text): group(0) of the
\* leftmost match, None when there is none
PriceSearch(t) ==
    LET starts == {i \in 1..(Len(t) - 1) :
                       t[i] \in Currency /\ t[i + 1] \in Digits \cup {","}}
    IN  IF starts = {} THEN None
        ELSE LET i == CHOOSE x \in starts : \A y \in starts : x <= y
                 e == RunEnd(t, i + 1)
                 cents == /\ e + 3 <= Len(t)
                          /\ t[e + 1] = "."
                          /\ t[e + 2] \in Digits
                          /\ t[e + 3] \in Digits
             IN  SubSeq(t, i, IF cents THEN e + 3 ELSE e)

\* BeautifulSoup(raw_html or "", "html.parser") if raw_html else None.
\* A parsed page is what the parser reports of it: the text of the element
\* .hp_address_subtitle and of #property_description_content (NoElem when
\* select_one finds none) and the text of the whole page.
\* raw_html is None, "" or a page.
NoSoup == [kind |-> "none", address_elem |-> NoElem, description_elem |-> NoElem,
           text |-> <<>>]
Soup(raw_html) == IF raw_html.kind = "page" THEN raw_html ELSE NoSoup

\* address: the record's own value, else the element's get_text(strip=True)
FixAddressKeepBlank(hotel_data, soup) ==
    LET address == Get(hotel_data, "address")
        found == IF (~Truthy(address) \/ ~Truthy(Strip(address))) /\ soup # NoSoup
                    /\ soup.address_elem # NoElem
                 THEN Strip(soup.address_elem)
                 ELSE address
    IN  IF found # None THEN Strip(found) ELSE None
FixAddress(hotel_data, soup) ==
    LET address == Get(hotel_data, "address")
        found == IF (~Truthy(address) \/ ~Truthy(Strip(address))) /\ soup # NoSoup
                    /\ soup.address_elem # NoElem
                 THEN Strip(soup.address_elem)
                 ELSE address
    IN  IF Truthy(found) THEN Strip(found) ELSE None

FixPriceFromPageFirst(hotel_data, soup) ==
    LET price == Get(hotel_data, "price")
        found == IF soup # NoSoup /\ PriceSearch(soup.text) # None
                 THEN PriceSearch(soup.text)
                 ELSE price
    IN  IF Truthy(found) THEN Strip(found) ELSE None

\* price: the record's own value, else the first price in the page's text
FixPrice(hotel_data, soup) ==
    LET price == Get(hotel_data, "price")
        found == IF (~Truthy(price) \/ ~Truthy(Strip(price))) /\ soup # NoSoup
                    /\ PriceSearch(soup.text) # None
                 THEN PriceSearch(soup.text)
                 ELSE price
    IN  IF Truthy(found) THEN Strip(found) ELSE None

\* description: the record's own value, else the element's get_text(" ",
\* strip=True); whitespace runs collapsed by " ".join(description.split())
FixDescription(hotel_data, soup) ==
    LET description == Get(hotel_data, "description")
        found == IF (~Truthy(description) \/ ~Truthy(Strip(description)))
                    /\ soup # NoSoup /\ soup.description_elem # NoElem
                 THEN Strip(soup.description_elem)
                 ELSE description
    IN  IF Truthy(found) THEN Strip(Join(SplitWs(found), <<" ">>)) ELSE None

FixNameOrNone(hotel_name, hotel_data) ==
    LET name == Get(hotel_data, "name")
    IN  IF ~Truthy(name) \/ ~Truthy(Strip(name)) THEN None ELSE Strip(name)

\* name: the record's own value trimmed, else the hotel name passed in
FixName(hotel_name, hotel_data) ==
    LET name == Get(hotel_data, "name")
    IN  IF ~Truthy(name) \/ ~Truthy(Strip(name)) THEN hotel_name ELSE Strip(name)

validate_and_fix(hotel_name, hotel_data, raw_html) ==
    LET soup == Soup(raw_html)
    IN  [name        |-> FixName(hotel_name, hotel_data),
         address     |-> FixAddress(hotel_data, soup),
         price       |-> FixPrice(hotel_data, soup),
         description |-> FixDescription(hotel_data, soup),
         url         |-> None]

\* the arguments the validator is tried on
HotelNames == {<<>>, <<"H">>}
FieldValues == {Missing, None, <<>>, <<" ">>, <<" ", "a", " ">>}
DescriptionValues == FieldValues \cup {<<"a", " ", " ", "b">>}
PageTexts == {<<>>, <<"x", " ", "$", "1", ",", "2", ".", "5", "0", "7">>, <<"GBP", "9">>}
Pages ==
    [kind : {"page"},
     address_elem : {NoElem, <<>>, <<" ", "S", "t", " ">>},
     description_elem : {NoElem, <<" ", "d", " ", " ", "e">>},
     text : PageTexts]
RawHtmls == {NoSoup, [NoSoup EXCEPT !.kind = "empty"]} \cup Pages
HotelDatas ==
    [name : FieldValues, address : FieldValues, price : FieldValues,
     description : DescriptionValues]

(***************************************************************************)
(* HotelScraper (src/main.py:372-503)                                      *)
(***************************************************************************)
UnknownHotel == \* "Unknown Hotel"
    <<"U","n","k","n","o","w","n"," ","H","o","t","e","l">>
NoDescription == \* "No description available"
    <<"N","o"," ","d","e","s","c","r","i","p","t","i","o","n"," ","a","v","a","i","l","a","b","l","e">>
ErrDescription == \* "Error occurred during scraping"
    <<"E","r","r","o","r"," ","o","c","c","u","r","r","e","d"," ","d","u","r","i","n","g"," ","s","c","r","a","p","i","n","g">>
ErrAddress == \* "Error retrieving address"
    <<"E","r","r","o","r"," ","r","e","t","r","i","e","v","i","n","g"," ","a","d","d","r","e","s","s">>
ErrPrice == \* "Error retrieving price"
    <<"E","r","r","o","r"," ","r","e","t","r","i","e","v","i","n","g"," ","p","r","i","c","e">>
AddressNotFound == \* "Address not found"
    <<"A","d","d","r","e","s","s"," ","n","o","t"," ","f","o","u","n","d">>
PriceNotFound == \* "Price not found"
    <<"P","r","i","c","e"," ","n","o","t"," ","f","o","u","n","d">>
HotelFrom == \* "Hotel from "
    <<"H","o","t","e","l"," ","f","r","o","m"," ">>
Http == \* "http://"
    <<"h","t","t","p",":","/","/">>
Https == \* "https://"
    <<"h","t","t","p","s",":","/","/">>
Www == \* "www."
    <<"w","w","w",".">>

\* where "https?://" matches at position i of s: the position after it, 0 if
\* it does not match there
SchemeEnd(s, i) ==
    IF StartsWith(SubSeq(s, i, Len(s)), Https) THEN i + Len(Https)
    ELSE IF StartsWith(SubSeq(s, i, Len(s)), Http) THEN i + Len(Http)
    ELSE 0

\* the end of the longest run of characters other than "/" starting at i
RECURSIVE HostEnd(_, _)
HostEnd(s, i) == IF i + 1 <= Len(s) /\ s[i + 1] # "/" THEN HostEnd(s, i + 1) ELSE i

\* re.search(r"https?://(?:www\.)?([^/]+)", url): group(1) of the leftmost
\* match, None when there is none
DomainSearch(url) ==
    LET starts == {i \in 1..Len(url) :
                       /\ SchemeEnd(url, i) # 0
                       /\ SchemeEnd(url, i) <= Len(url)
                       /\ url[SchemeEnd(url, i)] # "/"}
    IN  IF starts = {} THEN None
        ELSE LET i == CHOOSE x \in starts : \A y \in starts : x <= y
                 g == SchemeEnd(url, i)
                 h == IF /\ StartsWith(SubSeq(url, g, Len(url)), Www)
                         /\ g + Len(Www) <= Len(url)
                         /\ url[g + Len(Www)] # "/"
                      THEN g + Len(Www) ELSE g
             IN  SubSeq(url, h, HostEnd(url, h))

\* the name made of the last piece of the URL's path (the one before it when
\* the URL ends in "/"): extension cut, "-" and "_" turned into spaces, each
\* word capitalised
NameFromPathNoExtensionCut(url) ==
    LET parts == SplitOn(url, "/")
        last == IF parts[Len(parts)] # <<>> THEN parts[Len(parts)]
                ELSE parts[Len(parts) - 1]
        spaced == Replace(Replace(last, "-", <<" ">>), "_", <<" ">>)
    IN  Join(CapitalizeAll(SplitWs(spaced)), <<" ">>)
NameFromPath(url) ==
    LET parts == SplitOn(url, "/")
        last == IF parts[Len(parts)] # <<>> THEN parts[Len(parts)]
                ELSE parts[Len(parts) - 1]
        stem == SplitOn(last, ".")[1]
        spaced == Replace(Replace(stem, "-", <<" ">>), "_", <<" ">>)
    IN  Join(CapitalizeAll(SplitWs(spaced)), <<" ">>)

\* _extract_title_from_url
extract_title_from_url(url) ==
    LET name == IF Len(SplitOn(url, "/")) >= 2 THEN NameFromPath(url) ELSE <<>>
    IN  IF name # <<>> THEN name
        ELSE IF DomainSearch(url) # None THEN HotelFrom \o DomainSearch(url)
        ELSE UnknownHotel

\* A page's content is what re.findall reports of it for each pattern, in the
\* order the patterns are declared: address_matches[i] and price_matches[i]
\* are the matches of pattern i (<<>>: none).  kind "empty" is "" or None,
\* kind "nontext" a truthy value that is not a string.
EmptyContent == [kind |-> "empty", address_matches |-> <<>>, price_matches |-> <<>>]
MissingContent == [EmptyContent EXCEPT !.kind = "missing"]

\* the first match of the last pattern that matches
RECURSIVE LastRuleMatch(_, _)
LastRuleMatch(matches, notfound) ==
    IF matches = <<>> THEN notfound
    ELSE IF matches[Len(matches)] # <<>> THEN matches[Len(matches)][1]
    ELSE LastRuleMatch(SubSeq(matches, 1, Len(matches) - 1), notfound)

\* for pattern in patterns: matches = re.findall(pattern, content);
\* if matches: return matches[0]
RECURSIVE FirstMatch(_, _)
FirstMatch(matches, notfound) ==
    IF matches = <<>> THEN notfound
    ELSE IF Head(matches) # <<>> THEN Head(matches)[1]
    ELSE FirstMatch(Tail(matches), notfound)

ExtractAddressOrError(content) ==
    IF content.kind # "text" THEN ErrAddress
    ELSE FirstMatch(content.address_matches, ErrAddress)

\* _extract_address
extract_address(content) ==
    IF content.kind # "text" THEN AddressNotFound
    ELSE FirstMatch(content.address_matches, AddressNotFound)

\* _extract_price
extract_price(content) ==
    IF content.kind # "text" THEN PriceNotFound
    ELSE FirstMatch(content.price_matches, PriceNotFound)

\* scrape() returning None
NoHotelInfo ==
    [hotel_name |-> None, description |-> None, url |-> None, address |-> None,
     price |-> None]

\* the except branch of scrape(): the minimal record
DegradedRecord(url) ==
    [hotel_name  |-> extract_title_from_url(url),
     description |-> ErrDescription,
     url         |-> url,
     address     |-> ErrAddress,
     price       |-> ErrPrice]

\* result.get(key, "") and the truth value of what it gives
GetOr(d, key, default) == IF d[key] = Missing THEN default ELSE d[key]

\* the try branch of scrape() on the payload scrape_website returned.
\* A payload is falsy (None, {}, ...), a dict, or something else that is
\* truthy (a list, a string).
ContentOf(result) ==
    LET isdict == result.kind = "dict"
        content0 == IF isdict /\ result.content.kind # "missing"
                    THEN result.content ELSE EmptyContent
    IN  IF isdict /\ content0.kind \notin {"text", "nontext"}
        THEN (IF result.text.kind # "missing" THEN result.text
              ELSE IF result.markdown.kind # "missing" THEN result.markdown
              ELSE EmptyContent)
        ELSE content0

\* re.findall on a content that is truthy and not a string raises TypeError
ParseRaises(result) ==
    result.kind # "falsy" /\ ContentOf(result).kind = "nontext"

ScrapedRecord(url, result) ==
    IF result.kind = "falsy" THEN NoHotelInfo
    ELSE LET isdict == result.kind = "dict"
             content == ContentOf(result)
             title0 == IF isdict THEN GetOr(result, "title", <<>>) ELSE <<>>
             description == IF isdict THEN GetOr(result, "description", <<>>) ELSE <<>>
             title == IF Truthy(title0) THEN title0 ELSE extract_title_from_url(url)
         IN  [hotel_name  |-> IF Truthy(title) THEN title ELSE UnknownHotel,
              description |-> IF Truthy(description) THEN description ELSE NoDescription,
              url         |-> url,
              address     |-> extract_address(content),
              price       |-> extract_price(content)]

\* scrape(): what it returns once the wrapped scrape_website call has ended
ScrapeDropsOnError(url, w) ==
    IF w.status = "raised" \/ ParseRaises(w.result) THEN NoHotelInfo
    ELSE ScrapedRecord(url, w.result)
ScrapeWithMemory(url, w) ==
    IF w.status = "raised" \/ ParseRaises(w.result) THEN DegradedRecord(url)
    ELSE IF w.result.kind # "falsy" /\ Len(outcomes) = 2
    THEN [ScrapedRecord(url, w.result) EXCEPT !.address = outcomes[2].info.address]
    ELSE ScrapedRecord(url, w.result)
scrape(url, w) ==
    IF w.status = "raised" \/ ParseRaises(w.result) THEN DegradedRecord(url)
    ELSE ScrapedRecord(url, w.result)

(***************************************************************************)
(* create_list_of_hotels (src/app/create_list_of_hotels.py)                *)
(***************************************************************************)
MAX_CONCURRENT_REQUESTS == 2

BookingPrefix == \* "https://www.booking.com/hotel/"
    <<"h","t","t","p","s",":","/","/","w","w","w",".","b","o","o","k","i","n","g",".","c","o","m","/","h","o","t","e","l","/">>
DotHtml == \* ".html"
    <<".","h","t","m","l">>
DefaultCountryCode == \* "us"
    <<"u","s">>

\* validate_hotel_url
validate_hotel_url(url) ==
    /\ Truthy(url)
    /\ StartsWith(url, BookingPrefix)
    /\ Len(SplitOn(url, "/")) >= 5

\* country_codes of get_country_code: <<country name, code>>
country_codes ==
    << << <<"u","n","i","t","e","d"," ","s","t","a","t","e","s">>, <<"u","s">> >>,
       << <<"u","s","a">>, <<"u","s">> >>,
       << <<"u","n","i","t","e","d"," ","k","i","n","g","d","o","m">>, <<"g","b">> >>,
       << <<"u","k">>, <<"g","b">> >>,
       << <<"f","r","a","n","c","e">>, <<"f","r">> >>,
       << <<"s","p","a","i","n">>, <<"e","s">> >>,
       << <<"i","t","a","l","y">>, <<"i","t">> >>,
       << <<"g","e","r","m","a","n","y">>, <<"d","e">> >>,
       << <<"j","a","p","a","n">>, <<"j","p">> >>,
       << <<"c","h","i","n","a">>, <<"c","n">> >>,
       << <<"a","u","s","t","r","a","l","i","a">>, <<"a","u">> >>,
       << <<"c","a","n","a","d","a">>, <<"c","a">> >>,
       << <<"i","n","d","i","a">>, <<"i","n">> >>,
       << <<"b","r","a","z","i","l">>, <<"b","r">> >>,
       << <<"m","e","x","i","c","o">>, <<"m","x">> >>,
       << <<"s","i","n","g","a","p","o","r","e">>, <<"s","g">> >>,
       << <<"t","h","a","i","l","a","n","d">>, <<"t","h">> >>,
       << <<"u","n","i","t","e","d"," ","a","r","a","b"," ","e","m","i","r","a","t","e","s">>, <<"a","e">> >>,
       << <<"u","a","e">>, <<"a","e">> >>,
       << <<"s","o","u","t","h"," ","a","f","r","i","c","a">>, <<"z","a">> >> >>

AlwaysDefaultCountryCode(country) == DefaultCountryCode

\* get_country_code: country_codes.get(country.lower(), "us")
get_country_code(country) ==
    IF \E i \in 1..Len(country_codes) : country_codes[i][1] = Lower(country)
    THEN country_codes[CHOOSE i \in 1..Len(country_codes) :
                           country_codes[i][1] = Lower(country)][2]
    ELSE DefaultCountryCode

\* construct_booking_url: None when the hotel has no name
construct_booking_url(hotel_name, location) ==
    IF ~Truthy(hotel_name) THEN None
    ELSE LET pieces == SplitOn(location, ",")
             country == IF Truthy(location) THEN Strip(pieces[Len(pieces)]) ELSE <<>>
             url_name == Replace(Replace(Replace(Lower(hotel_name), " ", <<"-">>),
                                         "'", <<>>), ",", <<>>)
         IN  BookingPrefix \o get_country_code(country) \o <<"/">> \o url_name \o DotHtml

\* one entry of a hotel list: a dict with name, url and location (Missing: the
\* key is absent), or something that is no dict
Hotel(name, url, location) ==
    [isdict |-> TRUE, name |-> name, url |-> url, location |-> location]

\* the fallback list of get_hotel_urls
FallbackHotels ==
    << Hotel(\* The Plaza
            <<"T","h","e"," ","P","l","a","z","a">>,
            <<"h","t","t","p","s",":","/","/","w","w","w",".","b","o","o","k","i","n","g",".","c","o","m","/","h","o","t","e","l","/","u","s","/","t","h","e","-","p","l","a","z","a",".","h","t","m","l">>,
            <<"N","e","w"," ","Y","o","r","k",","," ","U","S","A">>),
      Hotel(\* Waldorf Astoria
            <<"W","a","l","d","o","r","f"," ","A","s","t","o","r","i","a">>,
            <<"h","t","t","p","s",":","/","/","w","w","w",".","b","o","o","k","i","n","g",".","c","o","m","/","h","o","t","e","l","/","u","s","/","w","a","l","d","o","r","f","-","a","s","t","o","r","i","a","-","n","e","w","-","y","o","r","k",".","h","t","m","l">>,
            <<"N","e","w"," ","Y","o","r","k",","," ","U","S","A">>),
      Hotel(\* The Ritz London
            <<"T","h","e"," ","R","i","t","z"," ","L","o","n","d","o","n">>,
            <<"h","t","t","p","s",":","/","/","w","w","w",".","b","o","o","k","i","n","g",".","c","o","m","/","h","o","t","e","l","/","g","b","/","t","h","e","-","r","i","t","z","-","l","o","n","d","o","n",".","h","t","m","l">>,
            <<"L","o","n","d","o","n",","," ","U","K">>),
      Hotel(\* Marina Bay Sands
            <<"M","a","r","i","n","a"," ","B","a","y"," ","S","a","n","d","s">>,
            <<"h","t","t","p","s",":","/","/","w","w","w",".","b","o","o","k","i","n","g",".","c","o","m","/","h","o","t","e","l","/","s","g","/","m","a","r","i","n","a","-","b","a","y","-","s","a","n","d","s",".","h","t","m","l">>,
            <<"S","i","n","g","a","p","o","r","e">>),
      Hotel(\* Burj Al Arab Jumeirah
            <<"B","u","r","j"," ","A","l"," ","A","r","a","b"," ","J","u","m","e","i","r","a","h">>,
            <<"h","t","t","p","s",":","/","/","w","w","w",".","b","o","o","k","i","n","g",".","c","o","m","/","h","o","t","e","l","/","a","e","/","b","u","r","j","-","a","l","-","a","r","a","b",".","h","t","m","l">>,
            <<"D","u","b","a","i",","," ","U","A","E">>) >>

\* the loop of generate_hotel_list over the parsed entries: an entry whose URL
\* is valid is kept, one whose URL is not gets a constructed URL, and one for
\* which none can be constructed is left out
RECURSIVE ValidatedHotels(_)
ValidatedHotels(hotels) ==
    IF hotels = <<>> THEN <<>>
    ELSE LET hotel == Head(hotels)
             fixed_url == construct_booking_url(GetOr(hotel, "name", <<>>),
                                                GetOr(hotel, "location", <<>>))
         IN  (IF validate_hotel_url(GetOr(hotel, "url", <<>>)) THEN <<hotel>>
              ELSE IF Truthy(fixed_url) THEN <<[hotel EXCEPT !.url = fixed_url]>>
              ELSE <<>>)
             \o ValidatedHotels(Tail(hotels))

\* What the completion service does on one call: it raises, or answers with
\* text that is no JSON, or with JSON: an object whose "hotels" key holds a
\* list of entries (shape "hotels"), an array of entries (shape "array"), or
\* another object (shape "object"), and then the loop runs over the
\* object's keys, which are strings.
CompletionRaises == [kind |-> "raise", shape |-> "none", hotels |-> <<>>]

\* generate_hotel_list past get_openai_client(): everything inside its try
ParsedHotels(completion) ==
    IF completion.kind # "json" THEN <<>>
    ELSE IF completion.shape = "object"
    THEN <<>>      \* hotel.get raises on a key, a str; no key, no hotel
    ELSE IF \E i \in 1..Len(completion.hotels) : ~completion.hotels[i].isdict
    THEN <<>>      \* hotel.get raises on an entry that is no dict
    ELSE ValidatedHotels(completion.hotels)

\* num_hotels, like location, goes into the prompt and nowhere else: what the
\* completion service answers is its own affair.
\* generate_hotel_list: get_openai_client() raises ValueError, outside the
\* try, when OPENAI_API_KEY is not set
generate_hotel_list(api_key, completion, num_hotels) ==
    IF ~api_key
    THEN [raised |-> TRUE, hotels |-> <<>>, trace |-> <<"generate">>]
    ELSE [raised |-> FALSE, hotels |-> ParsedHotels(completion),
          trace |-> <<"generate", "completion">>]

\* get_hotel_urls: the fallback list when generation gave nothing
NoFallbackHotels(g) == g
OrFallbackHotels(g) ==
    IF g.raised THEN g
    ELSE IF g.hotels = <<>>
    THEN [g EXCEPT !.hotels = FallbackHotels, !.trace = Append(@, "hardcoded")]
    ELSE g

get_hotel_urls(api_key, completion, num_hotels) ==
    OrFallbackHotels(generate_hotel_list(api_key, completion, num_hotels))

\* hotels[:n]
Take(s, n) == SubSeq(s, 1, IF Len(s) < n THEN Len(s) ELSE n)

\* get_hotel_urls_with_rate_limiting
get_hotel_urls_with_rate_limiting(api_key, completion, num_hotels) ==
    LET g == get_hotel_urls(api_key, completion, num_hotels)
    IN  [g EXCEPT !.hotels = Take(@, MAX_CONCURRENT_REQUESTS)]

(***************************************************************************)
(* HotelURLCollector.collect_urls (src/main.py:269-368)                    *)
(***************************************************************************)
HotelKeyword == \* "hotel"
    <<"h","o","t","e","l">>
SlashHotelKeyword == \* "/hotel"
    <<"/","h","o","t","e","l">>

\* "/hotel" in url.lower() or "hotel" in url.lower()
IsHotelUrlCaseSensitive(url) == Contains(url, HotelKeyword)
IsAnyUrl(url) == TRUE
IsHotelUrl(url) ==
    Contains(Lower(url), SlashHotelKeyword) \/ Contains(Lower(url), HotelKeyword)

\* the urls of the items that have one and pass the filter, in order
RECURSIVE HotelUrlsOf(_)
HotelUrlsOf(items) ==
    IF items = <<>> THEN <<>>
    ELSE (IF Head(items).has_url /\ IsHotelUrl(Head(items).url)
          THEN <<Head(items).url>> ELSE <<>>)
         \o HotelUrlsOf(Tail(items))

\* re.findall(r"https?://[^\s\"\']+", text): every "http://" or "https://"
\* with what follows it up to whitespace or a quote, left to right
UrlChar(c) == ~IsSpace(c) /\ c \notin {"\"", "'"}

RECURSIVE UrlEnd(_, _)
UrlEnd(text, i) ==
    IF i + 1 <= Len(text) /\ UrlChar(text[i + 1]) THEN UrlEnd(text, i + 1) ELSE i

RECURSIVE RawUrlsIn(_)
RawUrlsIn(text) ==
    LET starts == {i \in 1..Len(text) :
                       /\ SchemeEnd(text, i) # 0
                       /\ SchemeEnd(text, i) <= Len(text)
                       /\ UrlChar(text[SchemeEnd(text, i)])}
    IN  IF starts = {} THEN <<>>
        ELSE LET i == CHOOSE x \in starts : \A y \in starts : x <= y
                 e == UrlEnd(text, SchemeEnd(text, i))
             IN  <<SubSeq(text, i, e)>> \o RawUrlsIn(SubSeq(text, e + 1, Len(text)))

RECURSIVE RawUrlsOfTexts(_)
RawUrlsOfTexts(texts) ==
    IF texts = <<>> THEN <<>>
    ELSE RawUrlsIn(Head(texts)) \o RawUrlsOfTexts(Tail(texts))

RECURSIVE SelectHotelUrls(_)
SelectHotelUrls(urls) ==
    IF urls = <<>> THEN <<>>
    ELSE (IF IsHotelUrl(Head(urls)) THEN <<Head(urls)>> ELSE <<>>)
         \o SelectHotelUrls(Tail(urls))

\* an item whose "url" is not a string: url.lower() raises AttributeError
Malformed(items) ==
    \E i \in 1..Len(items) : items[i].has_url /\ items[i].url = None

\* the url of every item that has one
RECURSIVE UrlTexts(_)
UrlTexts(items) ==
    IF items = <<>> THEN <<>>
    ELSE (IF Head(items).has_url /\ Head(items).url # None
          THEN <<Head(items).url>> ELSE <<>>)
         \o UrlTexts(Tail(items))

\* A crawl result is the dict crawl_website returns: "pages" (if has_pages) is
\* a list of dicts, each with or without a "url"; "data" is absent, a list of
\* such dicts, or a dict with "urls"; other_texts are the string values found
\* under any other key.  The strings of json.dumps(result), in its order:
DumpedTexts(result) ==
    (IF result.has_pages THEN UrlTexts(result.pages) ELSE <<>>)
    \o (IF result.data_kind # "absent" THEN UrlTexts(result.data) ELSE <<>>)
    \o result.other_texts

\* the urls the structured parse finds: "pages", and "data" when pages gave none
PagesStage(result) == IF result.has_pages THEN HotelUrlsOf(result.pages) ELSE <<>>

DataStage(result) ==
    IF result.data_kind \in {"list", "dict_urls"} THEN HotelUrlsOf(result.data) ELSE <<>>

RawScanStage(result) == SelectHotelUrls(RawUrlsOfTexts(DumpedTexts(result)))

\* [hotel["url"] for hotel in hotel_data]
RECURSIVE UrlsOfHotels(_)
UrlsOfHotels(hotels) ==
    IF hotels = <<>> THEN <<>> ELSE <<Head(hotels).url>> \o UrlsOfHotels(Tail(hotels))

\* urls = [hotel["url"] for hotel in hotel_data], hotel_data being what
\* get_hotel_urls_with_rate_limiting did (g)
GeneratedUrls(trace, g) ==
    [raised |-> g.raised, urls |-> UrlsOfHotels(g.hotels), trace |-> trace \o g.trace]

\* the except branch of collect_urls: generation once more, nothing caught
CollectUrlsFallback(trace, api_key, completion, num_hotels) ==
    GeneratedUrls(trace \o <<"except">>,
                  get_hotel_urls_with_rate_limiting(api_key, completion, num_hotels))

\* the generation stage inside the try: what it raises is caught
GenerationStage(trace, g, api_key, completion, num_hotels) ==
    IF g.raised THEN CollectUrlsFallback(trace \o g.trace, api_key, completion, num_hotels)
    ELSE GeneratedUrls(trace, g)

\* collect_urls: what it returns, or that it raised, and the stages it ran
collect_urls(crawl, api_key, completion, num_hotels) ==
    IF crawl.kind = "raise"
    THEN CollectUrlsFallback(<<"crawl">>, api_key, completion, num_hotels)
    ELSE IF crawl.result.has_pages /\ Malformed(crawl.result.pages)
    THEN CollectUrlsFallback(<<"crawl", "pages">>, api_key, completion, num_hotels)
    ELSE IF /\ PagesStage(crawl.result) = <<>>
            /\ crawl.result.data_kind \in {"list", "dict_urls"}
            /\ Malformed(crawl.result.data)
    THEN CollectUrlsFallback(<<"crawl">>
                             \o (IF crawl.result.has_pages THEN <<"pages">> ELSE <<>>)
                             \o <<"data">>, api_key, completion, num_hotels)
    ELSE LET result == crawl.result
             s1 == PagesStage(result)
             run2 == s1 = <<>> /\ result.data_kind # "absent"
             s2 == IF run2 THEN DataStage(result) ELSE s1
             run3 == s2 = <<>>
             s3 == IF run3 THEN RawScanStage(result) ELSE s2
             run4 == s3 = <<>>
             trace == <<"crawl">>
                      \o (IF result.has_pages THEN <<"pages">> ELSE <<>>)
                      \o (IF run2 THEN <<"data">> ELSE <<>>)
                      \o (IF run3 THEN <<"raw">> ELSE <<>>)
         IN  IF ~run4 THEN [raised |-> FALSE, urls |-> s3, trace |-> trace]
             ELSE GenerationStage(trace,
                                  get_hotel_urls_with_rate_limiting(api_key, completion, num_hotels),
                                  api_key, completion, num_hotels)

(***************************************************************************)
(* What the external services answer                                       *)
(***************************************************************************)
MaxPages == 2

UGrand == \* "http://h.io/hotel/grand_inn.html"
    <<"h","t","t","p",":","/","/","h",".","i","o","/","h","o","t","e","l","/","g","r","a","n","d","_","i","n","n",".","h","t","m","l">>
UHotels == \* "https://www.h.io/Hotels/"
    <<"h","t","t","p","s",":","/","/","w","w","w",".","h",".","i","o","/","H","o","t","e","l","s","/">>
UHidden == \* "http://h.io/hotel/.hidden"
    <<"h","t","t","p",":","/","/","h",".","i","o","/","h","o","t","e","l","/",".","h","i","d","d","e","n">>
UAbout == \* "http://h.io/about"
    <<"h","t","t","p",":","/","/","h",".","i","o","/","a","b","o","u","t">>
URelative == \* "x/hotel/.a"
    <<"x","/","h","o","t","e","l","/",".","a">>
UOld == \* "http://h.io/hotel/old"
    <<"h","t","t","p",":","/","/","h",".","i","o","/","h","o","t","e","l","/","o","l","d">>
TextWithUrl == \* "see http://h.io/hotel/spa"
    <<"s","e","e"," ","h","t","t","p",":","/","/","h",".","i","o","/","h","o","t","e","l","/","s","p","a">>
URitz == \* "https://www.booking.com/hotel/fr/ritz.html"
    <<"h","t","t","p","s",":","/","/","w","w","w",".","b","o","o","k","i","n","g",".","c","o","m","/","h","o","t","e","l","/","f","r","/","r","i","t","z",".","h","t","m","l">>
URoma == \* "https://www.booking.com/hotel/it/roma.html"
    <<"h","t","t","p","s",":","/","/","w","w","w",".","b","o","o","k","i","n","g",".","c","o","m","/","h","o","t","e","l","/","i","t","/","r","o","m","a",".","h","t","m","l">>
USol == \* "https://www.booking.com/hotel/es/sol.html"
    <<"h","t","t","p","s",":","/","/","w","w","w",".","b","o","o","k","i","n","g",".","c","o","m","/","h","o","t","e","l","/","e","s","/","s","o","l",".","h","t","m","l">>
UNotBooking == \* "http://x.io/ritz"
    <<"h","t","t","p",":","/","/","x",".","i","o","/","r","i","t","z">>
RitzInn == \* "Ritz Inn"
    <<"R","i","t","z"," ","I","n","n">>
ParisFrance == \* "Paris, France"
    <<"P","a","r","i","s",","," ","F","r","a","n","c","e">>

\* a dict with a "url", and one without
WithUrl(url) == [has_url |-> TRUE, url |-> url]
WithoutUrl == [has_url |-> FALSE, url |-> <<>>]

PagePool ==
    {WithUrl(UGrand), WithUrl(UHotels), WithUrl(UAbout), WithoutUrl, WithUrl(None)}

\* every list of at most n pages of the pool
RECURSIVE PageListsUpTo(_)
PageListsUpTo(n) ==
    IF n = 0 THEN {<<>>}
    ELSE LET shorter == PageListsUpTo(n - 1)
         IN  shorter \cup {Append(l, p) : l \in {x \in shorter : Len(x) = n - 1},
                                          p \in PagePool}

\* one more hotel page than the orchestrator processes, two of them equal
UPlaza == FallbackHotels[1].url

LongPageList ==
    <<WithUrl(UHidden), WithUrl(UPlaza), WithUrl(URelative), WithUrl(UPlaza),
      WithUrl(UHotels)>>

CrawlDatas ==
    {[data_kind |-> "absent", data |-> <<>>],
     [data_kind |-> "list", data |-> <<WithoutUrl, WithUrl(UOld)>>],
     [data_kind |-> "dict_urls", data |-> <<WithUrl(UAbout), WithUrl(URelative)>>],
     [data_kind |-> "list", data |-> <<WithUrl(UOld), WithUrl(None)>>],
     [data_kind |-> "other", data |-> <<>>]}

CrawlResults ==
    {[has_pages |-> hp, pages |-> pl, data_kind |-> d.data_kind, data |-> d.data,
      other_texts |-> ot] :
        hp \in BOOLEAN, pl \in PageListsUpTo(MaxPages) \cup {LongPageList},
        d \in CrawlDatas, ot \in {<<>>, <<URelative, TextWithUrl>>}}

\* crawl_website raises (an API error, retries exhausted, the poll of the job
\* timed out) or returns a result
NoCrawlResult ==
    [has_pages |-> FALSE, pages |-> <<>>, data_kind |-> "absent", data |-> <<>>,
     other_texts |-> <<>>]
CrawlOutcomes ==
    {[kind |-> "raise", result |-> NoCrawlResult]}
    \cup {[kind |-> "result", result |-> r] : r \in {x \in CrawlResults : x.has_pages \/ x.pages = <<>>}}

NotADict == [isdict |-> FALSE, name |-> Missing, url |-> Missing, location |-> Missing]

HotelLists ==
    {<<>>,
     <<Hotel(RitzInn, URitz, ParisFrance)>>,
     <<Hotel(RitzInn, UNotBooking, ParisFrance)>>,
     <<Hotel(Missing, UNotBooking, ParisFrance), Hotel(<<>>, None, Missing)>>,
     <<Hotel(RitzInn, URitz, ParisFrance), NotADict>>,
     <<Hotel(RitzInn, URitz, Missing), Hotel(RitzInn, Missing, None),
       Hotel(Missing, URoma, Missing), Hotel(Missing, USol, Missing)>>,
     <<Hotel(Missing, BookingPrefix, Missing)>>}

Completions ==
    {CompletionRaises,
     [kind |-> "unparseable", shape |-> "none", hotels |-> <<>>],
     [kind |-> "json", shape |-> "object", hotels |-> <<>>]}
    \cup {[kind |-> "json", shape |-> "hotels", hotels |-> h] : h \in HotelLists}
    \cup {[kind |-> "json", shape |-> "array", hotels |-> <<Hotel(RitzInn, URoma, ParisFrance)>>]}

\* the payloads scrape_website returns
TextContent(address_matches, price_matches) ==
    [kind |-> "text", address_matches |-> address_matches,
     price_matches |-> price_matches]

FalsyPayload ==
    [kind |-> "falsy", content |-> MissingContent, title |-> Missing,
     description |-> Missing, text |-> MissingContent, markdown |-> MissingContent]

ScrapePayloads ==
    {FalsyPayload,
     [FalsyPayload EXCEPT !.kind = "other"],
     [FalsyPayload EXCEPT !.kind = "dict",
                          !.title = <<"R","i","t","z">>,
                          !.description = <<"N","i","c","e">>,
                          !.content = TextContent(<< <<>>, <<<<"1"," ","M","a","i","n"," ","S","t",","," ","T","o","w","n">>, <<"9"," ","S","i","d","e"," ","R","d",","," ","C","i","t","y">>>>, <<>> >>,
                                                  << <<>>, <<>>, <<<<"$","1","2","0">>>>, <<>>, <<<<"$","9","9">>, <<"$","1">>>> >>)],
     [FalsyPayload EXCEPT !.kind = "dict",
                          !.title = None,
                          !.content = EmptyContent,
                          !.markdown = TextContent(<< <<>>, <<>>, <<>> >>,
                                                   << <<>>, <<>>, <<>>, <<>>, <<<<"$","7","5">>>> >>)],
     [FalsyPayload EXCEPT !.kind = "dict",
                          !.content = [EmptyContent EXCEPT !.kind = "nontext"]]}

ScrapeOutcomes ==
    {Returned(p) : p \in ScrapePayloads} \cup {Raised(m, FalsyPayload) : m \in ErrMessages}

\* the records of a pre-scraped data file
Preloaded(url) ==
    [isdict |-> TRUE, name |-> RitzInn, address |-> None, price |-> None,
     description |-> None, url |-> url]
PreloadedPool ==
    {Preloaded(URitz), Preloaded(URoma), Preloaded(Missing), Preloaded(<<>>),
     [Preloaded(Missing) EXCEPT !.isdict = FALSE]}

MaxPreloaded == 2

\* the values of num_hotels tried
MaxHotels == 2
DesiredCounts == 1..MaxHotels

RECURSIVE PreloadedListsUpTo(_)
PreloadedListsUpTo(n) ==
    IF n = 0 THEN {<<>>}
    ELSE LET shorter == PreloadedListsUpTo(n - 1)
         IN  shorter \cup {Append(l, p) : l \in {x \in shorter : Len(x) = n - 1},
                                          p \in PreloadedPool}

(***************************************************************************)
(* The retry wrapper on its own: one invocation against a wrapped call     *)
(* whose outcome at every attempt is free.                                 *)
(***************************************************************************)
\* before the call: no record yet
NotCalled ==
    [called |-> FALSE,
     record |-> [name |-> None, address |-> None, price |-> None,
                 description |-> None, url |-> None]]

IdleValidate == /\ vin = None
                /\ vout = NotCalled

IdleRetry == /\ rw = WrapperEntry(<<>>)
             /\ hist = <<>>
             /\ sleeps = <<>>

\* before collect_urls is called
NoDiscovery == [called |-> FALSE, raised |-> FALSE, urls |-> <<>>, trace |-> <<>>]

IdleDiscover == /\ din = None
                /\ dout = NoDiscovery

(***************************************************************************)
(* crawl_website (src/main.py:109-225): the wrapped crawl_website calls    *)
(* the wrapped start_crawl_job and then wait_for_crawl_job, which polls    *)
(* get_crawl_job_status.                                                   *)
(***************************************************************************)
wait_max_retries == 20
initial_delay == 2
DelayCap == 10

\* Poll delays are counted in 1/DelayScale of a second: 2, 3, 4.5, 6.75 and
\* 10 seconds are then whole numbers.
DelayScale == 8

\* delay = min(delay * 1.5, 10)
NextDelay(delay) ==
    IF 3 * delay >= 2 * DelayCap * DelayScale THEN DelayCap * DelayScale
    ELSE (3 * delay) \div 2

\* the job id the crawl API hands out
JobIds == { <<"j","1">> }

\* What POST /crawl answers: 200 with a jobId, 200 without one, or another
\* status code, and what start_crawl_job does with it.
StartResponses ==
    {[code |-> "200", job |-> j] : j \in JobIds}
    \cup {[code |-> c, job |-> <<>>] : c \in {"200", "429", "500"}}

CrawlApiError(code) == \* f"Crawl API error: {response.status_code} - {response.text}"
    <<"C","r","a","w","l"," ","A","P","I"," ","e","r","r","o","r",":"," ">>
        \o (IF code = "429" THEN <<"4","2","9">> ELSE <<"5","0","0">>)
        \o <<" ","-"," ","x">>
NoJobIdMsg == \* f"No job ID returned from crawl API: {result}"
    <<"N","o"," ","j","o","b"," ","I","D"," ","r","e","t","u","r","n","e","d"," ","f","r","o","m"," ","c","r","a","w","l"," ","A","P","I",":"," ","{","}">>

StartOutcome(resp) ==
    IF resp.code # "200" THEN Raised(CrawlApiError(resp.code), <<>>)
    ELSE IF resp.job = <<>> THEN Raised(NoJobIdMsg, <<>>)
    ELSE Returned(resp.job)

\* f"Timed out waiting for crawl job {job_id} to complete"
TimedOutMsg(job_id) ==
    <<"T","i","m","e","d"," ","o","u","t"," ","w","a","i","t","i","n","g"," ","f","o","r"," ","c","r","a","w","l"," ","j","o","b"," ">>
        \o job_id \o <<" ","t","o"," ","c","o","m","p","l","e","t","e">>

\* What one call of get_crawl_job_status gives wait_for_crawl_job: a dict
\* whose "status" is one of these texts, or an exception ("raise").
PollResults == {"completed", "failed", "processing", "queued", "paused", "raise"}

\* the locals of wait_for_crawl_job at entry; polls counts the calls of
\* get_crawl_job_status, slept is the sleep of the last iteration (0: none),
\* last what the last poll gave
WaitEntry ==
    [retry_count |-> 0, delay |-> initial_delay * DelayScale, polls |-> 0,
     slept |-> 0, last |-> "none"]

\* one iteration of the while loop of wait_for_crawl_job that does not
\* return: the job is still running, or the except clause caught something
PollIterationNoCount(w, p) ==
    IF p \in {"processing", "queued"}
    THEN [w EXCEPT !.polls = @ + 1, !.last = p, !.slept = w.delay,
                   !.delay = NextDelay(@), !.retry_count = @ + 1]
    ELSE [w EXCEPT !.polls = @ + 1, !.last = p, !.slept = w.delay]
PollIteration(w, p) ==
    IF p \in {"processing", "queued"}
    THEN [w EXCEPT !.polls = @ + 1, !.last = p, !.slept = w.delay,
                   !.delay = NextDelay(@), !.retry_count = @ + 1]
    ELSE \* "failed" and an unknown status raise inside the try, as a failing
         \* get_crawl_job_status does: the except clause counts and sleeps
         [w EXCEPT !.polls = @ + 1, !.last = p, !.slept = w.delay,
                   !.retry_count = @ + 1]

IdleCrawl ==
    /\ cpc = "idle"
    /\ cw = WrapperEntry(<<>>)
    /\ sj = WrapperEntry(<<>>)
    /\ wj = WaitEntry
    /\ start_codes = <<>>

\* before generate_hotel_list is called
NoGeneration == [called |-> FALSE, raised |-> FALSE, hotels |-> <<>>]

IdleGenerate == /\ gin = None
                /\ gout = NoGeneration

\* scrape_website has returned nothing yet
NoPayload == [FalsyPayload EXCEPT !.kind = "none"]

\* scraped_data=None, and a list given for it
NoScrapedData == [given |-> FALSE, data |-> <<>>]
ScrapedData(data) == [given |-> TRUE, data |-> data]

IdleCollect ==
    /\ pc = "idle"
    /\ runs = 0
    /\ scraped_data = NoScrapedData
    /\ hotel_urls = <<>>
    /\ idx = 0
    /\ sw = WrapperEntry(NoPayload)
    /\ results = <<>>
    /\ ret = <<>>
    /\ called = {}
    /\ outcomes = <<>>
    /\ pauses = <<>>

InitRetry ==
    /\ rw = WrapperEntry(<<>>)
    /\ hist = <<>>
    /\ sleeps = <<>>
    /\ IdleValidate
    /\ IdleDiscover
    /\ IdleCollect
    /\ IdleGenerate
    /\ IdleCrawl

RetryAttempt ==
    /\ rw.status = "running"
    /\ \E out \in CallOutcomes, jitter \in JitterValues :
           /\ rw' = WrapperIteration(rw, out, jitter)
           /\ hist' = Append(hist, out)
           /\ sleeps' = IF rw'.wait > 0 THEN Append(sleeps, rw'.wait) ELSE sleeps
    /\ UNCHANGED <<crawlVars, generateVars, validateVars, discoverVars, collectVars>>

NextRetry == RetryAttempt

SpecRetry == InitRetry /\ [][NextRetry]_vars

(***************************************************************************)
(* The validator on its own: one call on arguments drawn at the start.     *)
(***************************************************************************)
InitValidate ==
    /\ vin \in [hotel_name : HotelNames, hotel_data : HotelDatas, raw_html : RawHtmls]
    /\ vout = NotCalled
    /\ IdleRetry
    /\ IdleDiscover
    /\ IdleCollect
    /\ IdleGenerate
    /\ IdleCrawl

Validate ==
    /\ ~vout.called
    /\ vout' = [called |-> TRUE,
                record |-> validate_and_fix(vin.hotel_name, vin.hotel_data, vin.raw_html)]
    /\ UNCHANGED <<crawlVars, generateVars, vin, retryVars, discoverVars, collectVars>>

NextValidate == Validate

SpecValidate == InitValidate /\ [][NextValidate]_vars

(***************************************************************************)
(* URL discovery on its own: one call of collect_urls against services     *)
(* whose answers are drawn at the start.                                   *)
(***************************************************************************)
DiscoveryInputs ==
    [crawl : CrawlOutcomes, api_key : BOOLEAN, completion : Completions,
     num_hotels : DesiredCounts]

InitDiscover ==
    /\ din \in DiscoveryInputs
    /\ dout = NoDiscovery
    /\ IdleRetry
    /\ IdleValidate
    /\ IdleCollect
    /\ IdleGenerate
    /\ IdleCrawl

DiscoveryOutcome(d) ==
    [called |-> TRUE, raised |-> d.raised, urls |-> d.urls, trace |-> d.trace]

CollectUrls ==
    /\ ~dout.called
    /\ dout' = DiscoveryOutcome(collect_urls(din.crawl, din.api_key, din.completion, din.num_hotels))
    /\ UNCHANGED <<crawlVars, generateVars, din, retryVars, validateVars, collectVars>>

NextDiscover == CollectUrls

SpecDiscover == InitDiscover /\ [][NextDiscover]_vars

(***************************************************************************)
(* HotelDataCollector.collect_data (src/main.py:521-594): one call on a    *)
(* fresh collector, the scrape of each URL going through the retry wrapper *)
(***************************************************************************)
\* hotel_urls[:3]
UrlCap == 3

\* random.uniform(3, 7), by its two ends
PauseMin == 3
PauseMax == 7
PauseValues == {PauseMin, PauseMax}

\* _validate_hotel_info
validate_hotel_info(hotel_info) ==
    Truthy(hotel_info.hotel_name) /\ Truthy(hotel_info.url)

\* hotel.get("url") raises AttributeError on an entry that is not a dict
PreloadedRaises(data) == \E i \in 1..Len(data) : ~data[i].isdict

\* the pre-scraped branch: self.results = self.scraped_data.copy(), or [] from
\* the except clause
PreloadedResultsWithUrlOnly(data) ==
    IF PreloadedRaises(data) THEN <<>>
    ELSE SelectSeq(data, LAMBDA h : Truthy(Get(h, "url")))
PreloadedResults(data) ==
    IF PreloadedRaises(data) THEN <<>> ELSE data

\* self.results.append(hotel_info)
PrependResult(rs, hotel_info) == <<hotel_info>> \o rs
OnlyLastResult(rs, hotel_info) == <<hotel_info>>
AppendResult(rs, hotel_info) == Append(rs, hotel_info)

\* the services a call of collect_urls reached
ServicesOf(trace) ==
    {"crawl"} \cup (IF \E i \in 1..Len(trace) : trace[i] = "completion"
                    THEN {"completion"} ELSE {})

InitCollect ==
    /\ pc = "start"
    /\ runs = 1
    /\ scraped_data \in {NoScrapedData}
                        \cup {ScrapedData(l) : l \in PreloadedListsUpTo(MaxPreloaded)}
    /\ hotel_urls = <<>>
    /\ idx = 0
    /\ sw = WrapperEntry(NoPayload)
    /\ results = <<>>
    /\ ret = <<>>
    /\ called = {}
    /\ outcomes = <<>>
    /\ pauses = <<>>
    /\ IdleRetry
    /\ IdleValidate
    /\ IdleDiscover
    /\ IdleGenerate
    /\ IdleCrawl

\* if self.scraped_data: ... return self.results
PassThrough ==
    /\ pc = "start"
    /\ scraped_data.data # <<>>
    /\ results' = (IF PreloadedRaises(scraped_data.data) THEN results
                   ELSE PreloadedResults(scraped_data.data))
    /\ ret' = PreloadedResults(scraped_data.data)
    /\ pc' = "done"
    /\ UNCHANGED <<crawlVars, runs, generateVars, scraped_data, hotel_urls, idx, sw, called, outcomes, pauses,
                   retryVars, validateVars, discoverVars>>

\* what follows collect_urls, u being what it answered: the outer except
\* clause or the empty check return [], else the cap.  Of u, dout keeps here
\* only whether collect_urls raised; its URLs, capped, are hotel_urls.
DiscoveredUncaught(u) ==
    /\ dout' = [NoDiscovery EXCEPT !.called = TRUE, !.raised = u.raised]
    /\ called' = called \cup ServicesOf(u.trace)
    /\ IF u.raised
       THEN /\ pc' = "raised"
            /\ UNCHANGED <<ret, hotel_urls>>
       ELSE IF u.urls = <<>>
       THEN /\ ret' = <<>>
            /\ pc' = "done"
            /\ UNCHANGED hotel_urls
       ELSE /\ hotel_urls' = Take(u.urls, UrlCap)
            /\ pc' = "loop"
            /\ UNCHANGED ret
DiscoveredUncapped(u) ==
    /\ dout' = [NoDiscovery EXCEPT !.called = TRUE, !.raised = u.raised]
    /\ called' = called \cup ServicesOf(u.trace)
    /\ IF u.raised \/ u.urls = <<>>
       THEN /\ ret' = <<>> /\ pc' = "done" /\ UNCHANGED hotel_urls
       ELSE /\ hotel_urls' = u.urls /\ pc' = "loop" /\ UNCHANGED ret
Discovered(u) ==
    /\ dout' = [NoDiscovery EXCEPT !.called = TRUE, !.raised = u.raised]
    /\ called' = called \cup ServicesOf(u.trace)
    /\ IF u.raised \/ u.urls = <<>>
       THEN /\ ret' = <<>>
            /\ pc' = "done"
            /\ UNCHANGED hotel_urls
       ELSE /\ hotel_urls' = Take(u.urls, UrlCap)
            /\ pc' = "loop"
            /\ UNCHANGED ret

\* Step 1: collect_urls, the empty check and the cap
DiscoverFrom(inputs) ==
    /\ pc = "start"
    /\ scraped_data.data = <<>>
    /\ \E d \in inputs :
          Discovered(collect_urls(d.crawl, d.api_key, d.completion, d.num_hotels))
    /\ UNCHANGED <<crawlVars, runs, generateVars, scraped_data, idx, sw, results, outcomes, pauses,
                   retryVars, validateVars, din>>

Discover == DiscoverFrom(DiscoveryInputs)

\* the head of the loop body: the delay before every URL but the first
BeginItemPauseAlways ==
    /\ pc = "loop"
    /\ idx < Len(hotel_urls)
    /\ idx' = idx + 1
    /\ \E wait_time \in PauseValues : pauses' = Append(pauses, wait_time)
    /\ sw' = WrapperEntry(NoPayload)
    /\ pc' = "scrape"
    /\ UNCHANGED <<crawlVars, runs, generateVars, scraped_data, hotel_urls, results, ret, called, outcomes,
                   retryVars, validateVars, discoverVars>>
BeginItem ==
    /\ pc = "loop"
    /\ idx < Len(hotel_urls)
    /\ idx' = idx + 1
    /\ \E wait_time \in PauseValues :
          pauses' = IF idx > 0 THEN Append(pauses, wait_time) ELSE pauses
    /\ sw' = WrapperEntry(NoPayload)
    /\ pc' = "scrape"
    /\ UNCHANGED <<crawlVars, runs, generateVars, scraped_data, hotel_urls, results, ret, called, outcomes,
                   retryVars, validateVars, discoverVars>>

\* one attempt of the wrapped scrape_website
ScrapeAttemptFrom(scrape_outcomes) ==
    /\ pc = "scrape"
    /\ sw.status = "running"
    /\ \E out \in scrape_outcomes, jitter \in JitterValues :
          sw' = WrapperIteration(sw, out, jitter)
    /\ called' = called \cup {"scrape"}
    /\ UNCHANGED <<crawlVars, runs, generateVars, pc, scraped_data, hotel_urls, idx, results, ret, outcomes,
                   pauses, retryVars, validateVars, discoverVars>>

ScrapeAttempt == ScrapeAttemptFrom(ScrapeOutcomes)

\* what follows scraper.scrape(), hotel_info being what it returned
Scraped(hotel_info) ==
    /\ results' = IF hotel_info # NoHotelInfo /\ validate_hotel_info(hotel_info)
                  THEN AppendResult(results, hotel_info) ELSE results
    /\ outcomes' = Append(outcomes,
                          [url |-> hotel_urls[idx], status |-> sw.status,
                           how |-> sw.how, payload |-> sw.result.kind,
                           result |-> sw.result, info |-> hotel_info])

\* the rest of scrape() and of the loop body
FinishItem ==
    /\ pc = "scrape"
    /\ sw.status # "running"
    /\ Scraped(scrape(hotel_urls[idx], sw))
    /\ sw' = WrapperEntry(NoPayload)
    /\ pc' = "loop"
    /\ UNCHANGED <<crawlVars, runs, generateVars, scraped_data, hotel_urls, idx, ret, called, pauses,
                   retryVars, validateVars, discoverVars>>

\* return self.results
Return ==
    /\ pc = "loop"
    /\ idx = Len(hotel_urls)
    /\ ret' = results
    /\ pc' = "done"
    /\ UNCHANGED <<crawlVars, runs, generateVars, scraped_data, hotel_urls, idx, sw, results, called, outcomes,
                   pauses, retryVars, validateVars, discoverVars>>

Next == PassThrough \/ Discover \/ BeginItem \/ ScrapeAttempt \/ FinishItem \/ Return

Spec == InitCollect /\ [][Next]_vars

\* collect_data is sequential code: whatever step is next is taken, every
\* sleep and every call of a service ending.  FinishItemFair is
\* WF_vars(FinishItem) with ENABLED <<FinishItem>>_vars written out as the
\* guard of FinishItem, which always changes pc.
FinishItemFair ==
    \/ []<>~(pc = "scrape" /\ sw.status # "running")
    \/ []<><<FinishItem>>_vars

SpecLive ==
    /\ Spec
    /\ WF_vars(PassThrough \/ Discover \/ BeginItem \/ ScrapeAttempt \/ Return)
    /\ FinishItemFair

(***************************************************************************)
(* collect_data called again and again on one HotelDataCollector: the      *)
(* attributes (results, scraped_data) stay, the locals start afresh.  The  *)
(* services answer from smaller sets here: the crawl raises or reports the *)
(* long page list, the completion service raises, and a scrape returns the *)
(* page with a title or raises an error that is no rate limit.             *)
(***************************************************************************)
MaxRuns == 2

RepeatDiscoveryInputs ==
    {[crawl |-> c, api_key |-> TRUE, completion |-> CompletionRaises, num_hotels |-> 1] :
        c \in {x \in CrawlOutcomes :
                  \/ x.kind = "raise"
                  \/ /\ x.result.has_pages
                     /\ x.result.pages = LongPageList
                     /\ x.result.data_kind = "absent"
                     /\ x.result.other_texts = <<>>}}

RepeatScrapeOutcomes ==
    {o \in ScrapeOutcomes :
        IF o.kind = "error" THEN o.msg = <<"c","o","n","n","e","c","t","i","o","n"," ","r","e","s","e","t">>
        ELSE o.value.kind = "dict" /\ o.value.title = <<"R","i","t","z">>}

RepeatDiscover == DiscoverFrom(RepeatDiscoveryInputs)

RepeatScrapeAttempt == ScrapeAttemptFrom(RepeatScrapeOutcomes)

\* collector.collect_data() once more, after the call before it has returned
CallAgain ==
    /\ pc = "done"
    /\ runs < MaxRuns
    /\ runs' = runs + 1
    /\ pc' = "start"
    /\ hotel_urls' = <<>>
    /\ idx' = 0
    /\ sw' = WrapperEntry(NoPayload)
    /\ ret' = <<>>
    /\ called' = {}
    /\ outcomes' = <<>>
    /\ pauses' = <<>>
    /\ dout' = NoDiscovery
    /\ UNCHANGED <<crawlVars, generateVars, scraped_data, results, retryVars,
                   validateVars, din>>

NextRepeat ==
    \/ PassThrough
    \/ RepeatDiscover
    \/ BeginItem
    \/ RepeatScrapeAttempt
    \/ FinishItem
    \/ Return
    \/ CallAgain

SpecRepeat == InitCollect /\ [][NextRepeat]_vars

(***************************************************************************)
(* generate_hotel_list on its own: one call, the key present or not and    *)
(* the completion service's answer drawn at the start.                     *)
(***************************************************************************)
MaxEntries == 2

OHaraInn == \* "O'Hara, Inn"
    <<"O","'","H","a","r","a",","," ","I","n","n">>
Mars == \* "Mars"
    <<"M","a","r","s">>
RomeItaly == \* "Rome, Lazio,  ITALY "
    <<"R","o","m","e",","," ","L","a","z","i","o",","," "," ","I","T","A","L","Y"," ">>

\* the entries an answer is made of
EntryPool ==
    {Hotel(n, u, ParisFrance) : n \in {Missing, None, <<>>, OHaraInn},
                                u \in {Missing, URitz, UNotBooking}}
    \cup {Hotel(OHaraInn, UNotBooking, l) : l \in {Missing, None, Mars, RomeItaly}}
    \cup {NotADict}

RECURSIVE EntryListsUpTo(_)
EntryListsUpTo(n) ==
    IF n = 0 THEN {<<>>}
    ELSE LET shorter == EntryListsUpTo(n - 1)
         IN  shorter \cup {Append(l, e) : l \in {x \in shorter : Len(x) = n - 1},
                                          e \in EntryPool}

GenerationInputs ==
    [api_key : BOOLEAN,
     completion : Completions
                  \cup {[kind |-> "json", shape |-> "hotels", hotels |-> h] :
                            h \in EntryListsUpTo(MaxEntries)},
     num_hotels : DesiredCounts]

InitGenerate ==
    /\ gin \in GenerationInputs
    /\ gout = NoGeneration
    /\ IdleRetry
    /\ IdleValidate
    /\ IdleDiscover
    /\ IdleCollect
    /\ IdleCrawl

GenerationOutcome(g) == [called |-> TRUE, raised |-> g.raised, hotels |-> g.hotels]

Generate ==
    /\ ~gout.called
    /\ gout' = GenerationOutcome(generate_hotel_list(gin.api_key, gin.completion,
                                                     gin.num_hotels))
    /\ UNCHANGED <<crawlVars, gin, retryVars, validateVars, discoverVars, collectVars>>

SpecGenerate == InitGenerate /\ [][Generate]_vars

(***************************************************************************)
(* crawl_website on its own: one call, the API's answers drawn at each     *)
(* request.                                                                *)
(***************************************************************************)
InitCrawl ==
    /\ cpc = "start"
    /\ cw = WrapperEntry(<<>>)
    /\ sj = WrapperEntry(<<>>)
    /\ wj = WaitEntry
    /\ start_codes = <<>>
    /\ IdleRetry
    /\ IdleValidate
    /\ IdleDiscover
    /\ IdleGenerate
    /\ IdleCollect

\* the body of crawl_website raised msg: what its wrapper does, outer being
\* the wrapper's locals after it
BodyRaised(outer, ended) ==
    /\ cw' = outer
    /\ IF outer.status = "running"
       THEN cpc' = "start" /\ sj' = WrapperEntry(<<>>)
       ELSE cpc' = "done" /\ sj' = ended

\* one attempt of the wrapped start_crawl_job, inner being its wrapper's
\* locals after it
Started(inner, outer_jitter) ==
    IF inner.status = "raised"
    THEN /\ BodyRaised(WrapperIteration(cw, Raised(inner.err, <<>>), outer_jitter), inner)
         /\ UNCHANGED wj
    ELSE /\ sj' = inner
         /\ cpc' = IF inner.status = "returned" THEN "wait" ELSE "start"
         /\ wj' = WaitEntry
         /\ UNCHANGED cw

\* one POST /crawl
StartRequest ==
    /\ cpc = "start"
    /\ \E resp \in StartResponses, jitter \in JitterValues, outer_jitter \in JitterValues :
          /\ start_codes' = Append(start_codes, resp.code)
          /\ Started(WrapperIteration(sj, StartOutcome(resp), jitter), outer_jitter)
    /\ UNCHANGED <<retryVars, validateVars, discoverVars, generateVars, collectVars>>

\* one iteration of the while loop of wait_for_crawl_job
PollStatus ==
    /\ cpc = "wait"
    /\ wj.retry_count < wait_max_retries
    /\ \E p \in PollResults :
          IF p = "completed"
          THEN /\ wj' = [wj EXCEPT !.polls = @ + 1, !.last = p, !.slept = 0]
               /\ cw' = WrapperIteration(cw, Returned(<<"completed">>), 0)
               /\ cpc' = "done"
          ELSE /\ wj' = PollIteration(wj, p)
               /\ UNCHANGED <<cw, cpc>>
    /\ UNCHANGED <<sj, start_codes, retryVars, validateVars, discoverVars, generateVars,
                   collectVars>>

\* the while loop ends: raise Exception(f"Timed out waiting ...")
TimedOut ==
    /\ cpc = "wait"
    /\ wj.retry_count >= wait_max_retries
    /\ \E outer_jitter \in JitterValues :
          BodyRaised(WrapperIteration(cw, Raised(TimedOutMsg(sj.result), <<>>),
                                      outer_jitter), sj)
    /\ UNCHANGED <<wj, start_codes, retryVars, validateVars, discoverVars, generateVars,
                   collectVars>>

NextCrawl == StartRequest \/ PollStatus \/ TimedOut

SpecCrawl == InitCrawl /\ [][NextCrawl]_vars

\* Every request is answered and every sleep ends: weak fairness of
\* NextCrawl, which is enabled exactly until crawl_website has ended.
CrawlFair ==
    \/ []<>(cpc = "done")
    \/ []<><<NextCrawl>>_vars

SpecCrawlLive == SpecCrawl /\ CrawlFair

(***************************************************************************)
(* Claims about the retry wrapper, under SpecRetry                         *)
(***************************************************************************)
\* the attempts so far were all rate-limited
AllRateLimited(h) ==
    \A i \in 1..Len(h) : h[i].kind = "error" /\ IsRateLimit(h[i].msg)

\* C6: a wrapped call's error that carries no rate-limit signal, at the first
\* attempt or after rate-limited ones, is re-raised as it is, at once: no sleep
\* follows it and the wrapped call is not invoked again (one call in all when
\* it is the first attempt's).
C6_NonRateLimitReraised ==
    /\ (hist # <<>> /\ hist[Len(hist)].kind = "error" /\ ~IsRateLimit(hist[Len(hist)].msg))
          => /\ rw.status = "raised"
             /\ rw.how = "reraise"
             /\ rw.err = hist[Len(hist)].msg
             /\ rw.calls = Len(hist)
             /\ Len(sleeps) = Len(hist) - 1
             /\ (Len(hist) = 1 => rw.calls = 1 /\ sleeps = <<>>)
    /\ \A i \in 1..(Len(hist) - 1) :
          hist[i].kind = "error" /\ IsRateLimit(hist[i].msg)

C6_Witness ==
    /\ Len(hist) = 3
    /\ hist[3].kind = "error"
    /\ ~IsRateLimit(hist[3].msg)
    /\ rw.status = "raised"
    /\ rw.calls = 3

\* C7: k rate-limit errors (0 <= k <= 4) and then a success: the wrapper
\* returns after k+1 calls and k sleeps, the sleep after failed attempt i
\* (0-based) lasting retry_delay * 2^i plus a jitter of 0 to 1 second, so the
\* sleeps strictly increase and sum to at least retry_delay * (2^k - 1).
C7_BackoffThenSuccess ==
    (hist # <<>> /\ hist[Len(hist)].kind = "ok"
       /\ AllRateLimited(SubSeq(hist, 1, Len(hist) - 1)))
    => LET k == Len(hist) - 1
       IN  /\ k \in 0..4
           /\ rw.status = "returned"
           /\ rw.calls = k + 1
           /\ Len(sleeps) = k
           /\ \A i \in 0..(k - 1) :
                 /\ sleeps[i + 1] >= retry_delay * Pow(2, i) * JitterSteps
                 /\ sleeps[i + 1] <= retry_delay * Pow(2, i) * JitterSteps + JitterSteps
           /\ \A i \in 1..(k - 1) : sleeps[i] < sleeps[i + 1]
           /\ SumSeq(sleeps) >= retry_delay * (Pow(2, k) - 1) * JitterSteps

C7_Witness ==
    /\ Len(hist) = 3
    /\ hist[3].kind = "ok"
    /\ rw.status = "returned"
    /\ rw.calls = 3
    /\ SumSeq(sleeps) >= 15 * JitterSteps

\* C8: one invocation of the wrapper calls the wrapped function at most
\* max_retries (5) times; five rate-limited attempts end it with the
\* exhausted-retries failure, and it is running only while attempts are left.
C8_RetryCeiling ==
    /\ rw.calls <= max_retries
    /\ (rw.status = "running" => rw.calls < max_retries)
    /\ (Len(hist) = max_retries /\ AllRateLimited(hist))
          => /\ rw.status = "raised"
             /\ rw.how = "exhausted"
             /\ rw.err = ExhaustedMsg
             /\ rw.calls = max_retries

C8_Witness ==
    /\ Len(hist) = max_retries
    /\ AllRateLimited(hist)
    /\ rw.status = "raised"
    /\ rw.how = "exhausted"

(***************************************************************************)
(* Claims about the validator, under SpecValidate                          *)
(***************************************************************************)
ValidatedFields == {"address", "price", "description"}

\* None, empty or whitespace only
Blank(x) == x = None \/ \A i \in 1..Len(x) : IsSpace(x[i])

\* no whitespace at either end
Trimmed(x) == x = <<>> \/ (~IsSpace(x[1]) /\ ~IsSpace(x[Len(x)]))

C1_DiscoveryNeverRaises ==
    dout.called => (~dout.raised /\ dout.urls # <<>>)

\* the case that refutes C1: no API key, and nothing found by the crawl
C1_Witness ==
    /\ dout.called
    /\ dout.raised
    /\ ~din.api_key
    /\ din.crawl.kind = "result"
    /\ dout.trace = <<"crawl", "pages", "raw", "generate", "except", "generate">>

\* the hotel keyword predicate, as the claim has it
MatchesHotelKeyword(url) == Contains(Lower(url), HotelKeyword)

\* the pages of the crawl response that carry a url matching the keyword
MatchingPages(result) ==
    SelectSeq(result.pages, LAMBDA p : p.has_url /\ MatchesHotelKeyword(p.url))

\* the parse of the page list ran to its end: every url it met was a string
PageListParsed(result) ==
    result.has_pages /\ \A i \in 1..Len(result.pages) : result.pages[i].url # None

\* C5: when the crawl returns and the parse of its page list yields at least
\* one URL matching the hotel keyword, collect_urls runs nothing after that
\* stage (no "data" probe, no raw scan, no generation, no hard-coded list) and
\* returns exactly the matching page URLs, in the order of the page list.
C5_ChainStopsAtFirstYield ==
    (/\ dout.called
     /\ din.crawl.kind = "result"
     /\ PageListParsed(din.crawl.result)
     /\ MatchingPages(din.crawl.result) # <<>>)
    => /\ ~dout.raised
       /\ dout.trace = <<"crawl", "pages">>
       /\ Len(dout.urls) = Len(MatchingPages(din.crawl.result))
       /\ \A i \in 1..Len(dout.urls) :
             dout.urls[i] = MatchingPages(din.crawl.result)[i].url

C5_Witness ==
    /\ dout.called
    /\ din.crawl.kind = "result"
    /\ din.crawl.result.pages = <<WithUrl(UHotels), WithUrl(UGrand)>>
    /\ din.crawl.result.data_kind = "list"
    /\ din.crawl.result.other_texts # <<>>
    /\ din.api_key
    /\ dout.urls = <<UHotels, UGrand>>
    /\ dout.trace = <<"crawl", "pages">>

(***************************************************************************)
(* Claims about collect_data, under Spec                                   *)
(***************************************************************************)
\* collect_data returned after processing the discovered URLs
DiscoveryDone == pc = "done" /\ hotel_urls # <<>>

\* the scrape call gave an empty or missing payload
FalsyOutcome(o) == o.status = "returned" /\ o.payload = "falsy"

RecordList(data) == data # <<>> /\ \A i \in 1..Len(data) : data[i].isdict

\* C3 as stated: whatever list is supplied as scraped_data, collect_data
\* returns that list and no external service is called.
C3_PassThroughAnyList ==
    (pc = "done" /\ scraped_data.given)
        => (ret = scraped_data.data /\ called = {})

\* C3 as amended: for every non-empty list of dict records supplied as
\* scraped_data, collect_data returns exactly that list, in the same order,
\* without discovery and without a call to the crawl, scrape or completion
\* service.
C3_PassThroughRecords ==
    (scraped_data.given /\ RecordList(scraped_data.data))
        => /\ called = {}
           /\ hotel_urls = <<>>
           /\ outcomes = <<>>
           /\ pc \in {"start", "done"}
           /\ pc = "done" => (ret = scraped_data.data /\ results = scraped_data.data)

C3_Witness ==
    /\ pc = "done"
    /\ scraped_data = ScrapedData(<<Preloaded(Missing), Preloaded(URitz)>>)
    /\ ret = <<Preloaded(Missing), Preloaded(URitz)>>
    /\ called = {}

\* the scrape call of this URL threw
ScrapeThrew(o) == o.status = "raised"

\* the record is the degraded one for its URL, but for the name
DegradedBut(o) ==
    /\ o.info.url = o.url
    /\ o.info.address = ErrAddress
    /\ o.info.price = ErrPrice
    /\ o.info.description = ErrDescription

ThePlaza == \* "The Plaza"
    <<"T","h","e"," ","P","l","a","z","a">>
GrandInn == \* "Grand Inn"
    <<"G","r","a","n","d"," ","I","n","n">>
HotelFromHIo == \* "Hotel from h.io"
    <<"H","o","t","e","l"," ","f","r","o","m"," ","h",".","i","o">>

InOrderOf(r, s) ==
    \E f \in [1..Len(r) -> 1..Len(s)] :
        /\ \A i \in 1..Len(r) : r[i].url = s[f[i]]
        /\ \A i, j \in 1..Len(r) : i < j => f[i] < f[j]

\* C10: in discovery mode the url values of the results follow the order of
\* the discovered URLs (the record of URL i comes before the record of URL j
\* whenever i < j), all along and in what is returned; in pre-scraped mode
\* the returned records are in the order supplied.
C10_OutputInInputOrder ==
    /\ hotel_urls # <<>> =>
          /\ InOrderOf(results, SubSeq(hotel_urls, 1, Len(outcomes)))
          /\ pc = "done" => InOrderOf(ret, hotel_urls)
    /\ (pc = "done" /\ scraped_data.data # <<>>) =>
          \A i \in 1..Len(ret) : ret[i] = scraped_data.data[i]

C10_Witness ==
    /\ pc = "done"
    /\ hotel_urls = <<UHidden, UPlaza, URelative>>
    /\ Len(ret) = 3
    /\ ret[1].url = UHidden
    /\ ret[2].url = UPlaza
    /\ ret[3].url = URelative

\* the record carries a url that is not empty
UrlPresent(r) == r.url \notin {Missing, None, <<>>}

\* C11 as stated: every record of the result collect_data returns, in
\* discovery mode and in pre-scraped mode alike, has a url, not empty.
C11_EveryRecordHasUrl ==
    pc = "done" => \A i \in 1..Len(ret) : UrlPresent(ret[i])

\* C11 as amended: in discovery mode every record of the results, and so of
\* what is returned, has a non-empty url; in pre-scraped mode each returned
\* record has the url it was supplied with, present or not.
C11_UrlPresentInDiscoveryMode ==
    /\ hotel_urls # <<>> =>
          /\ \A i \in 1..Len(results) : UrlPresent(results[i])
          /\ \A i \in 1..Len(ret) : UrlPresent(ret[i])
    /\ (pc = "done" /\ scraped_data.data # <<>>) =>
          \A i \in 1..Len(ret) : ret[i].url = scraped_data.data[i].url

C11_Witness ==
    /\ pc = "done"
    /\ scraped_data = ScrapedData(<<Preloaded(<<>>), Preloaded(URoma)>>)
    /\ Len(ret) = 2
    /\ ~UrlPresent(ret[1])
    /\ UrlPresent(ret[2])

(***************************************************************************)
(* Claims about the progress of collect_data, under SpecLive               *)
(***************************************************************************)
\* every URL of hotel_urls has been handed to scrape(), in order
AllUrlsScraped ==
    /\ Len(outcomes) = Len(hotel_urls)
    /\ \A i \in 1..Len(hotel_urls) : outcomes[i].url = hotel_urls[i]

\* a record once in results stays there, at its place
ResultsKept ==
    \A i \in 1..Len(results) : Len(results') >= i /\ results'[i] = results[i]

\* C12: in discovery mode, once the capped URLs are known, every one of them
\* is eventually handed to scrape(), whatever the earlier URLs met (an
\* exception, retries exhausted, an empty payload), and collect_data then
\* returns; no step removes a record built for an earlier URL, and the result
\* returned holds them all.
C12_NoAbortOnOneFailure ==
    /\ (hotel_urls # <<>>) ~> (pc = "done" /\ AllUrlsScraped /\ ret = results)
    /\ [][ResultsKept]_vars
    /\ [](hotel_urls # <<>> => Len(results) <= Len(outcomes))

C12_Witness ==
    /\ pc = "done"
    /\ Len(hotel_urls) = 3
    /\ AllUrlsScraped
    /\ outcomes[1].how = "exhausted"
    /\ outcomes[2].payload = "falsy" /\ outcomes[2].status = "returned"
    /\ outcomes[3].how = "reraise"
    /\ Len(ret) = 2
    /\ ret[1] = outcomes[1].info
    /\ ret[2] = outcomes[3].info

(***************************************************************************)
(* More claims about collect_data, under Spec                              *)
(***************************************************************************)
\* C13: collect_data never raises, and when collect_urls raises or returns
\* no URL, collect_data returns an empty list: nothing is scraped and no
\* record is built.
C13_EmptyResultOnDiscoveryFailure ==
    /\ pc \in {"start", "loop", "scrape", "done"}
    /\ (dout.called /\ (dout.raised \/ hotel_urls = <<>>))
          => /\ pc = "done"
             /\ ret = <<>>
             /\ results = <<>>
             /\ outcomes = <<>>
             /\ "scrape" \notin called

C13_Witness ==
    /\ pc = "done"
    /\ dout.called
    /\ dout.raised
    /\ called = {"crawl"}
    /\ ret = <<>>

(***************************************************************************)
(* More claims about URL discovery, under SpecDiscover                     *)
(***************************************************************************)
\* collect_urls went as far as the generation stage
GenerationReached == \E i \in 1..Len(dout.trace) : dout.trace[i] = "generate"

\* the completion call raised, its answer was no JSON, or no entry of the
\* answer has either a URL with the booking prefix or a name to build one
GenerationFailsEntirely(c) ==
    \/ c.kind \in {"raise", "unparseable"}
    \/ /\ c.kind = "json"
       /\ c.shape \in {"hotels", "array"}
       /\ \A i \in 1..Len(c.hotels) :
             /\ c.hotels[i].isdict
             /\ ~StartsWith(c.hotels[i].url, BookingPrefix)
             /\ c.hotels[i].name \in {Missing, None, <<>>}

\* C14: with the completion client built, whenever generation fails entirely
\* (the call raises, the answer is no JSON, no entry survives validation and
\* reconstruction), get_hotel_urls returns the hard-coded list, and
\* collect_urls, when it reached the generation stage, returns URLs of that
\* list only, in the order of the list.
C14_HardCodedStage ==
    (dout.called /\ din.api_key /\ GenerationFailsEntirely(din.completion))
    => /\ get_hotel_urls(din.api_key, din.completion, din.num_hotels).hotels = FallbackHotels
       /\ GenerationReached =>
             /\ ~dout.raised
             /\ dout.urls # <<>>
             /\ Len(dout.urls) <= Len(FallbackHotels)
             /\ \A i \in 1..Len(dout.urls) : dout.urls[i] = FallbackHotels[i].url
             /\ dout.trace[Len(dout.trace)] = "hardcoded"

C14_Witness ==
    /\ dout.called
    /\ din.api_key
    /\ din.completion.kind = "json"
    /\ din.completion.hotels
          = <<Hotel(Missing, UNotBooking, ParisFrance), Hotel(<<>>, None, Missing)>>
    /\ din.crawl.kind = "result"
    /\ dout.trace = <<"crawl", "pages", "raw", "generate", "completion", "hardcoded">>
    /\ dout.urls = <<UPlaza, FallbackHotels[2].url>>

\* C15: when collect_urls reaches the generation stage with num_hotels = n,
\* it returns at most n URLs, whatever the completion service answered and
\* whether or not the hard-coded list was used.
C15_AtMostDesiredCount ==
    (dout.called /\ GenerationReached /\ ~dout.raised)
        => Len(dout.urls) <= din.num_hotels

\* the case that refutes C15: one hotel asked for, two URLs returned
C15_Witness ==
    /\ dout.called
    /\ GenerationReached
    /\ din.num_hotels = 1
    /\ din.api_key
    /\ Len(din.completion.hotels) = 4
    /\ Len(dout.urls) = MAX_CONCURRENT_REQUESTS

\* C16: every URL collect_urls returns, whichever stage it came from (the
\* page list, the "data" probe, the raw scan, generation with validation or
\* reconstruction, the hard-coded list), holds "hotel", in any letter case.
C16_EveryUrlMatchesKeyword ==
    dout.called => \A i \in 1..Len(dout.urls) : MatchesHotelKeyword(dout.urls[i])

C16_Witness ==
    /\ dout.called
    /\ din.completion.kind = "json"
    /\ din.completion.hotels = <<Hotel(RitzInn, UNotBooking, ParisFrance)>>
    /\ dout.trace = <<"crawl", "pages", "data", "raw", "generate", "completion">>
    /\ Len(dout.urls) = 1
    /\ dout.urls[1] # UNotBooking
    /\ StartsWith(dout.urls[1], BookingPrefix)
    /\ MatchesHotelKeyword(dout.urls[1])


(***************************************************************************)
(* Claims about generate_hotel_list (SpecGenerate)                         *)
(***************************************************************************)
\* what the claim expects of one entry, spelled out for the entries drawn
UrlFails(entry) == ~validate_hotel_url(GetOr(entry, "url", <<>>))

NameIsEmpty(entry) == entry.name \in {Missing, None, <<>>}

ExpectedCode(location) ==
    IF location = ParisFrance THEN <<"f","r">>
    ELSE IF location = RomeItaly THEN <<"i","t">>
    ELSE <<"u","s">>      \* absent, null, or "Mars"

ExpectedSlug(name) ==
    IF name = OHaraInn THEN <<"o","h","a","r","a","-","i","n","n">>
    ELSE IF name = RitzInn THEN <<"r","i","t","z","-","i","n","n">>
    ELSE <<"?">>

ExpectedUrl(entry) ==
    BookingPrefix \o ExpectedCode(entry.location) \o <<"/">>
                  \o ExpectedSlug(entry.name) \o DotHtml

RECURSIVE RepairedOrDropped(_)
RepairedOrDropped(entries) ==
    IF entries = <<>> THEN <<>>
    ELSE LET entry == Head(entries)
         IN  (IF ~UrlFails(entry) THEN <<entry>>
              ELSE IF NameIsEmpty(entry) THEN <<>>
              ELSE <<[entry EXCEPT !.url = ExpectedUrl(entry)]>>)
             \o RepairedOrDropped(Tail(entries))

\* the completion service answered with a list of entries
EntriesGenerated ==
    /\ gout.called
    /\ gin.api_key
    /\ gin.completion.kind = "json"
    /\ gin.completion.shape # "object"

AllEntriesAreDicts ==
    \A i \in 1..Len(gin.completion.hotels) : gin.completion.hotels[i].isdict

ReturnedUrlsAreValid ==
    \A i \in 1..Len(gout.hotels) : validate_hotel_url(gout.hotels[i].url)

ScrapeRaised(o) == o.status = "raised" \/ ParseRaises(o.result)

NoRuleMatched(matches) == \A i \in 1..Len(matches) : matches[i] = <<>>

\* C18: in every record scrape() returns, address is "Error retrieving
\* address" (price: "Error retrieving price") only if the scrape attempt
\* raised; when it did not raise and no pattern matched the content, address
\* is "Address not found" (price: "Price not found"), and when a pattern
\* matched it is neither sentinel; the error sentinel and the not-found
\* sentinel of a field differ.
C18_ErrorSentinelOnlyWhenRaised ==
    /\ ErrAddress # AddressNotFound
    /\ ErrPrice # PriceNotFound
    /\ \A i \in 1..Len(outcomes) :
          LET o == outcomes[i]
          IN  o.info # NoHotelInfo =>
                 /\ o.info.address = ErrAddress => ScrapeRaised(o)
                 /\ o.info.price = ErrPrice => ScrapeRaised(o)
                 /\ ~ScrapeRaised(o) =>
                       /\ o.info.address = AddressNotFound
                             <=> NoRuleMatched(ContentOf(o.result).address_matches)
                       /\ o.info.price = PriceNotFound
                             <=> NoRuleMatched(ContentOf(o.result).price_matches)
                       /\ o.info.address # ErrAddress
                       /\ o.info.price # ErrPrice

\* three URLs: the first scrape raises, the second returns a page where no
\* address pattern matches but a price pattern does, the third a payload
\* with no content at all
C18_Witness ==
    /\ Len(outcomes) = 3
    /\ outcomes[1].status = "raised"
    /\ outcomes[1].info.address = ErrAddress
    /\ outcomes[1].info.price = ErrPrice
    /\ outcomes[2].status = "returned"
    /\ outcomes[2].payload = "dict"
    /\ outcomes[2].info.address = AddressNotFound
    /\ outcomes[2].info.price = <<"$","7","5">>
    /\ outcomes[3].payload = "other"
    /\ outcomes[3].info.address = AddressNotFound
    /\ outcomes[3].info.price = PriceNotFound


(***************************************************************************)
(* Claims about the name and the kept fields of validate_and_fix           *)
(* (SpecValidate)                                                          *)
(***************************************************************************)
\* the key is absent, or holds None, "" or whitespace only
MissingOrBlank(initial) == initial = Missing \/ Blank(initial)

\* C19: the name validate_and_fix returns is the hotel name passed in when
\* the record's name is missing, None, empty or whitespace only, and the
\* record's own name trimmed otherwise; it is never None or a not-found
\* sentinel, and it is the same whatever the raw page is.
C19_NameNeverNotFound ==
    vout.called =>
        LET initial == vin.hotel_data.name
        IN  /\ MissingOrBlank(initial) => vout.record.name = vin.hotel_name
            /\ ~MissingOrBlank(initial) =>
                  /\ vout.record.name = Strip(initial)
                  /\ Trimmed(vout.record.name)
                  /\ vout.record.name # <<>>
            /\ initial = <<" ", "a", " ">> => vout.record.name = <<"a">>
            /\ vout.record.name \notin {None, Missing, AddressNotFound, PriceNotFound,
                                        UnknownHotel, NoElem}
            /\ \A raw_html \in RawHtmls :
                  validate_and_fix(vin.hotel_name, vin.hotel_data, raw_html).name
                     = vout.record.name

\* the record has a whitespace-only name, the page holds text everywhere,
\* and the name returned is the hotel name passed in
C19_Witness ==
    /\ vout.called
    /\ vin.hotel_data.name = <<" ">>
    /\ vin.hotel_name = <<"H">>
    /\ vin.raw_html.kind = "page"
    /\ vin.raw_html.address_elem = <<" ", "S", "t", " ">>
    /\ vin.raw_html.description_elem # NoElem
    /\ vout.record.name = <<"H">>


\* the field comes out the same whatever the raw page is: the page was not
\* consulted for it
PageNotConsulted(f) ==
    \A raw_html \in RawHtmls :
        validate_and_fix(vin.hotel_name, vin.hotel_data, raw_html)[f] = vout.record[f]

\* C20 as stated: a value of address, price or description that is present
\* and non-empty after trimming is returned trimmed, whatever the raw page
\* holds.
C20_NonBlankKeptTrimmed ==
    vout.called =>
        \A f \in ValidatedFields :
            LET initial == vin.hotel_data[f]
            IN  ~MissingOrBlank(initial) =>
                   /\ vout.record[f] = Strip(initial)
                   /\ PageNotConsulted(f)

\* C20 amended: a present, non-blank address or price is returned trimmed; a
\* present, non-blank description is returned trimmed with every run of
\* whitespace inside it replaced by one space; in all three cases the raw
\* page is not consulted for the field; the returned value depends on the
\* page only for a field that is missing or blank.
C20_NonBlankKeptNormalised ==
    vout.called =>
        /\ \A f \in {"address", "price"} :
              ~MissingOrBlank(vin.hotel_data[f]) => vout.record[f] = Strip(vin.hotel_data[f])
        /\ ~MissingOrBlank(vin.hotel_data.description) =>
              vout.record.description = Join(SplitWs(vin.hotel_data.description), <<" ">>)
        /\ vin.hotel_data.description = <<"a", " ", " ", "b">> =>
              vout.record.description = <<"a", " ", "b">>
        /\ \A f \in ValidatedFields :
              /\ vin.hotel_data[f] = <<" ", "a", " ">> => vout.record[f] = <<"a">>
              /\ ~MissingOrBlank(vin.hotel_data[f]) => PageNotConsulted(f)
              /\ ~PageNotConsulted(f) => MissingOrBlank(vin.hotel_data[f])

\* every field is present and the page holds another candidate for each
C20_Witness ==
    /\ vout.called
    /\ vin.raw_html.kind = "page"
    /\ vin.raw_html.address_elem = <<" ", "S", "t", " ">>
    /\ vin.raw_html.description_elem = <<" ", "d", " ", " ", "e">>
    /\ vin.raw_html.text = <<"GBP", "9">>
    /\ vin.hotel_data.address = <<" ", "a", " ">>
    /\ vin.hotel_data.price = <<" ", "a", " ">>
    /\ vin.hotel_data.description = <<"a", " ", " ", "b">>
    /\ vout.record.address = <<"a">>
    /\ vout.record.price = <<"a">>
    /\ vout.record.description = <<"a", " ", "b">>


(***************************************************************************)
(* Claims about _extract_address and _extract_price (Spec)                 *)
(***************************************************************************)
\* the rules that match, by their position in the declaration
MatchingRules(matches) == {k \in 1..Len(matches) : matches[k] # <<>>}

\* what the claim expects of one extractor: the first match of the first
\* rule that matches, the sentinel when none does
FirstRuleFirstMatch(matches, notfound) ==
    IF MatchingRules(matches) = {} THEN notfound
    ELSE LET k == CHOOSE x \in MatchingRules(matches) :
                      \A y \in MatchingRules(matches) : x <= y
         IN  matches[k][1]

\* C21: for every page scraped without an exception, address and price are
\* each the first match of the first rule, in declaration order, that matches
\* the content, and never a match of a later rule; when no rule matches, or
\* the content is empty or None, the field is its not-found sentinel; it is
\* never None.
C21_FirstRuleWins ==
    \A i \in 1..Len(outcomes) :
        LET o == outcomes[i]
            content == ContentOf(o.result)
        IN  (o.info # NoHotelInfo /\ ~ScrapeRaised(o)) =>
               /\ o.info.address # None /\ o.info.price # None
               /\ content.kind = "text" =>
                     /\ o.info.address
                           = FirstRuleFirstMatch(content.address_matches, AddressNotFound)
                     /\ o.info.price
                           = FirstRuleFirstMatch(content.price_matches, PriceNotFound)
                     /\ \A k \in MatchingRules(content.price_matches) :
                           \A j \in (k + 1)..Len(content.price_matches) :
                               \A n \in 1..Len(content.price_matches[j]) :
                                   content.price_matches[j][n] # content.price_matches[k][1]
                                       => o.info.price # content.price_matches[j][n]
               /\ content.kind # "text" =>
                     /\ o.info.address = AddressNotFound
                     /\ o.info.price = PriceNotFound
               /\ extract_address(EmptyContent) = AddressNotFound
               /\ extract_price(EmptyContent) = PriceNotFound

\* a page where the second address rule matches twice and the third and
\* fifth price rules match: the first match of the earlier rule is returned
C21_Witness ==
    \E i \in 1..Len(outcomes) :
        LET content == ContentOf(outcomes[i].result)
        IN  /\ outcomes[i].status = "returned"
            /\ content.kind = "text"
            /\ MatchingRules(content.address_matches) = {2}
            /\ Len(content.address_matches[2]) = 2
            /\ MatchingRules(content.price_matches) = {3, 5}
            /\ outcomes[i].info.address
                  = <<"1"," ","M","a","i","n"," ","S","t",","," ","T","o","w","n">>
            /\ outcomes[i].info.price = <<"$","1","2","0">>


(***************************************************************************)
(* Claims about the URL cap and the pacing of collect_data (Spec)          *)
(***************************************************************************)
\* what collect_urls can return, cut to its first three
FirstThreeDiscovered ==
    {Take(collect_urls(d.crawl, d.api_key, d.completion, d.num_hotels).urls, 3) :
        d \in DiscoveryInputs}

\* C22: in discovery mode the URLs processed are the first 3 that collect_urls
\* returned, in its order; scrape_website is invoked for at most 3 URLs, each
\* invocation makes at most 5 requests, and so a run makes at most 15.
C22_AtMostThreeUrls ==
    hotel_urls # <<>> =>
        /\ Len(hotel_urls) <= 3
        /\ hotel_urls \in FirstThreeDiscovered
        /\ idx <= Len(hotel_urls)
        /\ Len(outcomes) <= 3
        /\ \A i \in 1..Len(outcomes) : outcomes[i].url = hotel_urls[i]
        /\ sw.calls <= 5
        /\ pc = "scrape" => 5 * (idx - 1) + sw.calls <= 15
        /\ pc # "scrape" => 5 * Len(outcomes) <= 15

\* five URLs were discovered, three were scraped, the last one with five
\* requests, and the run is over
C22_Witness ==
    /\ pc = "done"
    /\ hotel_urls = <<UHidden, UPlaza, URelative>>
    /\ Take(HotelUrlsOf(LongPageList), 3) = hotel_urls
    /\ Len(HotelUrlsOf(LongPageList)) = 5
    /\ Len(outcomes) = 3
    /\ outcomes[3].how = "exhausted"


\* a pause has just been taken
Paused == Len(pauses') = Len(pauses) + 1

\* C23: in discovery mode every pause lasts between 3 and 7 seconds; a pause
\* is taken only in the step that goes on to scrape a URL other than the
\* first, after the scrape of the URL before it has ended; that step always
\* takes one, the step that goes on to the first URL never does; so once n
\* URLs have been begun there have been exactly n - 1 pauses.
C23_PauseBetweenScrapes ==
    /\ [](\A i \in 1..Len(pauses) : pauses[i] >= 3 /\ pauses[i] <= 7)
    /\ [](idx >= 1 => Len(pauses) = idx - 1)
    /\ [](idx = 0 => pauses = <<>>)
    /\ [][Paused => /\ pc = "loop" /\ pc' = "scrape"
                    /\ idx >= 1 /\ idx' = idx + 1
                    /\ Len(outcomes) = idx
                    /\ SubSeq(pauses', 1, Len(pauses)) = pauses]_vars
    /\ [][(pc = "loop" /\ pc' = "scrape") => (Paused <=> idx >= 1)]_vars
    /\ [][pauses' # pauses => Paused]_vars

\* three URLs processed, two pauses, the shortest and the longest
C23_Witness ==
    /\ pc = "done"
    /\ Len(outcomes) = 3
    /\ pauses = <<3, 7>>


\* the scrape of outcome o ran the extractors, on this content
Extracted(o) == o.info # NoHotelInfo /\ ~ScrapeRaised(o)

PersistentRateLimiting == \A i \in 1..Len(start_codes) : start_codes[i] = "429"

\* C25: under persistent rate limiting one crawl_website call makes at most 5
\* POST /crawl requests, and the failure start_crawl_job's wrapper raises
\* when its retries are used up is no rate-limit signal for the wrapper of
\* crawl_website.
C25_CeilingsDoNotMultiply ==
    PersistentRateLimiting =>
        /\ Len(start_codes) <= 5
        /\ sj.how = "exhausted" => ~IsRateLimit(sj.err)

\* crawl_website has failed after 25 requests, all of them answered 429
C25_Witness ==
    /\ cpc = "done"
    /\ cw.status = "raised"
    /\ cw.how = "exhausted"
    /\ PersistentRateLimiting
    /\ Len(start_codes) = 25


\* a status poll has just been made and gave p
Polled(p) == wj'.polls = wj.polls + 1 /\ wj'.last = p

\* C26: when a status poll reports "failed", or a status that is not known,
\* wait_for_crawl_job raises at once: crawl_website ends with a failure, with
\* no sleep and no further poll.
C26_FailedRaisesAtOnce ==
    [][(Polled("failed") \/ Polled("paused"))
          => /\ wj'.slept = 0
             /\ cpc' = "done"
             /\ cw'.status = "raised"]_vars

\* the first poll reported "failed"; wait_for_crawl_job has slept its 2
\* seconds and is about to poll again
C26_Witness ==
    /\ cpc = "wait"
    /\ wj.last = "failed"
    /\ wj.polls = 1
    /\ wj.retry_count = 1
    /\ wj.slept = 2 * DelayScale
    /\ ENABLED PollStatus

(***************************************************************************)
(* Claims about wait_for_crawl_job (SpecCrawlLive)                         *)
(***************************************************************************)
\* C27: wait_for_crawl_job always ends; every iteration of its loop returns
\* the completed status or adds one to the retry counter, so it polls at most
\* 20 times whatever the polls give; when the 20 are used up it raises the
\* timed-out failure; its delay never decreases and never exceeds 10 seconds.
C27_WaitTerminates ==
    /\ (cpc = "wait") ~> (cpc = "done")
    /\ [](wj.polls <= 20)
    /\ [](wj.retry_count <= wj.polls)
    /\ [](2 * DelayScale <= wj.delay /\ wj.delay <= 10 * DelayScale)
    /\ [](wj.slept <= 10 * DelayScale)
    /\ [][wj'.polls = wj.polls + 1
            => \/ /\ wj'.last = "completed"
                  /\ cpc' = "done"
                  /\ cw'.status = "returned"
               \/ /\ wj'.retry_count = wj.retry_count + 1
                  /\ cpc' = "wait"]_vars
    /\ [][(cpc = "wait" /\ cpc' = "wait") => wj'.delay >= wj.delay]_vars
    /\ [][(cpc = "wait" /\ wj.retry_count >= 20)
            => /\ wj' = wj
               /\ cpc' = "done"
               /\ cw'.status = "raised"
               /\ cw'.err = TimedOutMsg(<<"j","1">>)]_vars

\* twenty polls, none of them "completed", the delay grown to its cap, and
\* the timed-out failure raised
C27_Witness ==
    /\ cpc = "done"
    /\ wj.polls = 20
    /\ wj.retry_count = 20
    /\ wj.delay = 10 * DelayScale
    /\ wj.last = "raise"
    /\ cw.status = "raised"
    /\ cw.err = TimedOutMsg(<<"j","1">>)


(***************************************************************************)
(* More claims about the retry wrapper (SpecRetry)                         *)
(***************************************************************************)
\* C28: once the wrapper has ended, by a return, a re-raise or the
\* exhausted-retries failure, it has slept once less than it has invoked the
\* wrapped call: every sleep was followed by another invocation, and none
\* follows the fifth failed attempt.
C28_SleepsOnlyBetweenAttempts ==
    rw.status # "running" => Len(sleeps) = Len(hist) - 1

\* five invocations, all rate limited, and five sleeps: the last one comes
\* after the fifth attempt, right before the failure is raised
C28_Witness ==
    /\ rw.status = "raised"
    /\ rw.how = "exhausted"
    /\ Len(hist) = 5
    /\ \A i \in 1..5 : hist[i].kind = "error" /\ IsRateLimit(hist[i].msg)
    /\ Len(sleeps) = 5
    /\ sleeps[5] >= retry_delay * 16 * JitterSteps


(***************************************************************************)
(* Claims about repeated calls of collect_data (SpecRepeat)                *)
(***************************************************************************)
\* C29: whichever call of collect_data it is, what a call in discovery mode
\* returns holds only records of the URLs that call processed: at most 3,
\* no more than it scraped, each with the URL of one of its scrapes.
C29_RunsAreIndependent ==
    (pc = "done" /\ ~scraped_data.given) =>
        /\ Len(ret) <= 3
        /\ Len(ret) <= Len(outcomes)
        /\ InOrderOf(ret, [i \in 1..Len(outcomes) |-> outcomes[i].url])

\* the second call processed three URLs and returned six records, the first
\* three being those of the first call
C29_Witness ==
    /\ pc = "done"
    /\ runs = 2
    /\ ~scraped_data.given
    /\ Len(outcomes) = 3
    /\ Len(ret) = 6
    /\ \A i \in 1..3 : ret[i + 3] = outcomes[i].info


(***************************************************************************)
(* Claims about validate_hotel_url (SpecGenerate)                          *)
(***************************************************************************)
\* what follows the prefix, cut at the slashes
SegmentsBeyondPrefix(url) ==
    SplitOn(SubSeq(url, Len(BookingPrefix) + 1, Len(url)), "/")

\* https://www.booking.com/hotel/country_code/hotel-name.html
HasCountryAndName(url) ==
    /\ StartsWith(url, BookingPrefix)
    /\ Len(SegmentsBeyondPrefix(url)) >= 2
    /\ SegmentsBeyondPrefix(url)[1] # <<>>
    /\ SegmentsBeyondPrefix(url)[2] # <<>>

\* C30: a URL that validate_hotel_url accepts begins with the prefix and has,
\* beyond it, a non-empty country code and a non-empty hotel name; so every
\* URL an entry of generate_hotel_list's result carries has both, and the
\* bare prefix is not among them.
C30_RejectsIncompleteUrls ==
    gout.called =>
        \A i \in 1..Len(gout.hotels) :
            /\ validate_hotel_url(gout.hotels[i].url)
            /\ HasCountryAndName(gout.hotels[i].url)
            /\ gout.hotels[i].url # BookingPrefix

\* the completion service gave one entry whose URL is the bare prefix, and
\* generate_hotel_list returned it as valid
C30_Witness ==
    /\ gout.called
    /\ gin.completion.hotels = <<Hotel(Missing, BookingPrefix, Missing)>>
    /\ validate_hotel_url(BookingPrefix)
    /\ gout.hotels = <<Hotel(Missing, BookingPrefix, Missing)>>

=============================================================================
